---- MODULE Spec2Model ----
(***************************************************************************)
(* Model of the time-series slice of TP-Persistencia-Poliglota:            *)
(* cassandra_part.py (dual-write ingestion, month-partitioned range        *)
(* query, daily roll-up) as driven by its command handlers.                *)
(*                                                                         *)
(* Encodings                                                               *)
(*   datetime   a naive UTC datetime at hour precision is the integer      *)
(*              yyyymmddhh; integer order is chronological order.          *)
(*   Optional   None is <<>>, a present value v is <<v>>.                  *)
(*   humidity   fixed point, One (= 10000) stands for 1.0, so 0.55 is      *)
(*              5500 and 55 is 550000.                                     *)
(*   temperature whole degrees Celsius.                                    *)
(*   averages   exact fractions [num, den] in lowest terms.                *)
(***************************************************************************)
EXTENDS Integers, Sequences, FiniteSets, TLC

VARIABLES
    bySensor,   \* table measurement_by_sensor_month
    byCity,     \* table measurement_by_city_day
    stats,      \* table daily_city_stats
    last,       \* the command that ran last: its arguments and its outcome
    failed,     \* some insert_measurement call has raised
    nIns,       \* insert_measurement calls made so far
    sensor,     \* table sensor (Cassandra)
    requests,   \* collection requests (MongoDB): request _id -> status
    executions, \* collection executions (MongoDB), in insertion order
    usage,      \* keys usage:{userId}:{yyyymm} (Redis): key -> counter
    alerts,     \* collection alerts (MongoDB), in insertion order
    clock,      \* the instant the last datetime.now() of an alert check gave
    inflight,   \* roll-ups that have read their partition and not yet written
    sessions,   \* collection sessions (MongoDB), in insertion order
    cache,      \* keys session:{sid} (Redis): sid -> cached roles
    alertState, \* hashes alert:{id} (Redis): id -> field state
    activeIdx,  \* sorted set alerts:active (Redis): its members
    calls,      \* push_alert / resolve_alert calls made, each with its position
    queue       \* stream alerts:queue (Redis): the ids added, in order

(* the state of concurrent roll-ups, of the session store and of the Redis  *)
(* alert index                                                              *)
beyond == <<inflight, sessions, cache, alertState, activeIdx, calls, queue>>

vars == <<bySensor, byCity, stats, last, failed, nIns,
          sensor, requests, executions, usage, alerts, clock, beyond>>

(* the state outside the measurement store *)
outside == <<sensor, requests, executions, usage, alerts, clock, beyond>>

----------------------------------------------------------------------------
(* Bounds *)

MaxInserts == 2

----------------------------------------------------------------------------
(* Optional values *)

None == <<>>
Some(v) == <<v>>
IsSome(x) == x # None
Val(x) == x[1]

(* 1.0 in the fixed-point humidity scale *)
One == 100 * 100

----------------------------------------------------------------------------
(* datetime *)

Dt(y, m, d, h) == ((y * 100 + m) * 100 + d) * 100 + h
Year(dt) == dt \div 1000000
Month(dt) == (dt \div 10000) % 100
Day(dt) == (dt \div 100) % 100

yyyymm(dt) == Year(dt) * 100 + Month(dt)

yyyymmdd(dt) == Year(dt) * 10000 + Month(dt) * 100 + Day(dt)

----------------------------------------------------------------------------
(* normalize_humidity *)

normalize_humidity_NoUpper(h) ==
    IF h = None THEN None
    ELSE IF 0 <= Val(h) /\ Val(h) <= One THEN h
    ELSE IF One < Val(h) THEN Some(Val(h) \div 100)
    ELSE None

normalize_humidity_Raw(h) == h

normalize_humidity(h) ==
    IF h = None THEN None
    ELSE IF 0 <= Val(h) /\ Val(h) <= One THEN h
    ELSE IF One < Val(h) /\ Val(h) <= 100 * One THEN Some(Val(h) \div 100)
    ELSE None

----------------------------------------------------------------------------
(* insert_measurement: two INSERTs; a Cassandra INSERT replaces the row    *)
(* that has the same primary key.                                          *)

SensorRow(sensor_id, when, temperature, humidity) ==
    [sensor_id |-> sensor_id, yyyymm |-> yyyymm(when), ts |-> when,
     temperature |-> temperature, humidity |-> humidity]

CityRow(sensor_id, when, temperature, humidity, city, country) ==
    [country |-> country, city |-> city, yyyymmdd |-> yyyymmdd(when),
     ts |-> when, sensor_id |-> sensor_id,
     temperature |-> temperature, humidity |-> humidity]

SameSensorKey(a, b) ==
    a.sensor_id = b.sensor_id /\ a.yyyymm = b.yyyymm /\ a.ts = b.ts

SameCityKey(a, b) ==
    /\ a.country = b.country /\ a.city = b.city /\ a.yyyymmdd = b.yyyymmdd
    /\ a.ts = b.ts /\ a.sensor_id = b.sensor_id

InsertBySensor(tbl, row) == {r \in tbl : ~SameSensorKey(r, row)} \cup {row}

InsertByCity(tbl, row) == {r \in tbl : ~SameCityKey(r, row)} \cup {row}

(* a bug: the two writes in the other order *)
insert_measurement_CityFirst(sensor_id, when, temperature, humidity, city, country, outcome) ==
    /\ byCity' = IF outcome = "fail1" THEN byCity
                 ELSE InsertByCity(byCity,
                          CityRow(sensor_id, when, temperature, humidity, city, country))
    /\ bySensor' = IF outcome = "ok"
                   THEN InsertBySensor(bySensor,
                            SensorRow(sensor_id, when, temperature, humidity))
                   ELSE bySensor
    /\ failed' = (failed \/ outcome # "ok")

(* outcome: "ok", "fail1" (the first execute raises), "fail2" (the second) *)
insert_measurement(sensor_id, when, temperature, humidity, city, country, outcome) ==
    /\ bySensor' = IF outcome = "fail1" THEN bySensor
                   ELSE InsertBySensor(bySensor,
                            SensorRow(sensor_id, when, temperature, humidity))
    /\ byCity' = IF outcome = "ok"
                 THEN InsertByCity(byCity,
                          CityRow(sensor_id, when, temperature, humidity, city, country))
                 ELSE byCity
    /\ failed' = (failed \/ outcome # "ok")

----------------------------------------------------------------------------
(* query_sensor_range *)

RECURSIVE SeqByTs(_)
(* the rows of one partition in clustering order (ts ASC) *)
SeqByTs(S) ==
    IF S = {} THEN <<>>
    ELSE LET m == CHOOSE r \in S : \A q \in S : r.ts <= q.ts
         IN  <<m>> \o SeqByTs(S \ {m})

(* the next value of the cursor: the first day of the following month *)
NextCursor(cursor) ==
    LET m == Month(cursor) + 1
        y == Year(cursor) + (IF m = 13 THEN 1 ELSE 0)
    IN  Dt(y, IF m = 13 THEN 1 ELSE m, 1, 0)

RECURSIVE MonthWalk(_, _, _)
(* a bug: the walk stops before the month that holds end *)
MonthWalk_StopsEarly(cursor, end, months) ==
    IF NextCursor(cursor) <= end
    THEN MonthWalk(NextCursor(cursor), end, months \cup {yyyymm(cursor)})
    ELSE months

MonthWalk(cursor, end, months) ==
    IF cursor <= end
    THEN MonthWalk(NextCursor(cursor), end, months \cup {yyyymm(cursor)})
    ELSE months

MonthsTouched_StartOnly(start, end) == {yyyymm(start)}

MonthsTouched(start, end) ==
    MonthWalk(Dt(Year(start), Month(start), 1, 0), end, {yyyymm(start)})

RECURSIVE sorted(_)
sorted_Desc(months) ==
    IF months = {} THEN <<>>
    ELSE LET m == CHOOSE x \in months : \A y \in months : x >= y
         IN  <<m>> \o sorted(months \ {m})

sorted(months) ==
    IF months = {} THEN <<>>
    ELSE LET m == CHOOSE x \in months : \A y \in months : x <= y
         IN  <<m>> \o sorted(months \ {m})

(* SELECT ts, temperature, humidity ... WHERE sensor_id AND yyyymm AND ts range *)
PartitionScan(tbl, sensor_id, m, start, end) ==
    LET rs == SeqByTs({r \in tbl : /\ r.sensor_id = sensor_id /\ r.yyyymm = m
                                   /\ r.ts >= start /\ r.ts <= end})
    IN  [i \in 1..Len(rs) |-> [ts |-> rs[i].ts, temperature |-> rs[i].temperature,
                               humidity |-> rs[i].humidity]]

RECURSIVE ExtendAll(_, _, _, _, _)
ExtendAll(tbl, sensor_id, ms, start, end) ==
    IF ms = <<>> THEN <<>>
    ELSE PartitionScan(tbl, sensor_id, Head(ms), start, end)
            \o ExtendAll(tbl, sensor_id, Tail(ms), start, end)

query_sensor_range(tbl, sensor_id, start, end) ==
    ExtendAll(tbl, sensor_id, sorted(MonthsTouched(start, end)), start, end)

----------------------------------------------------------------------------
(* rollup_daily_for_city *)

(* sensor ids in text order, the second clustering column of the city view *)
SensorIds == <<"S1", "S2">>
Rank(sensor_id) == CHOOSE i \in 1..Len(SensorIds) : SensorIds[i] = sensor_id

CityBefore(a, b) ==
    a.ts < b.ts \/ (a.ts = b.ts /\ Rank(a.sensor_id) <= Rank(b.sensor_id))

RECURSIVE SeqByTsSensor(_)
(* the rows of one partition in clustering order (ts ASC, sensor_id ASC) *)
SeqByTsSensor(S) ==
    IF S = {} THEN <<>>
    ELSE LET m == CHOOSE r \in S : \A q \in S : CityBefore(r, q)
         IN  <<m>> \o SeqByTsSensor(S \ {m})

(* SELECT temperature, humidity FROM measurement_by_city_day WHERE ... *)
CityDayScan(tbl, country, city, day_yyyymmdd) ==
    SeqByTsSensor({r \in tbl : /\ r.country = country /\ r.city = city
                               /\ r.yyyymmdd = day_yyyymmdd})

RECURSIVE TempsOf(_)
TempsOf(rs) ==
    IF rs = <<>> THEN <<>>
    ELSE (IF Head(rs).temperature # None
          THEN <<Val(Head(rs).temperature)>> ELSE <<>>) \o TempsOf(Tail(rs))

RECURSIVE HumsOf(_)
HumsOf_NeedsTemp(rs) ==
    IF rs = <<>> THEN <<>>
    ELSE (IF Head(rs).humidity # None /\ Head(rs).temperature # None
          THEN <<Val(Head(rs).humidity)>> ELSE <<>>) \o HumsOf(Tail(rs))

HumsOf(rs) ==
    IF rs = <<>> THEN <<>>
    ELSE (IF Head(rs).humidity # None
          THEN <<Val(Head(rs).humidity)>> ELSE <<>>) \o HumsOf(Tail(rs))

RECURSIVE sum(_)
sum(xs) == IF xs = <<>> THEN 0 ELSE Head(xs) + sum(Tail(xs))

min(xs) == CHOOSE x \in {xs[i] : i \in 1..Len(xs)} : \A j \in 1..Len(xs) : x <= xs[j]

max(xs) == CHOOSE x \in {xs[i] : i \in 1..Len(xs)} : \A j \in 1..Len(xs) : x >= xs[j]

Abs(n) == IF n < 0 THEN -n ELSE n

RECURSIVE Gcd(_, _)
Gcd(a, b) == IF b = 0 THEN a ELSE Gcd(b, a % b)

(* the quotient n/d as an exact fraction in lowest terms, d > 0 *)
Frac(n, d) ==
    LET g == Gcd(Abs(n), d)
    IN  [num |-> n \div g, den |-> d \div g]

(* a bug: samples counts the readings of the fuller channel *)
StatsRow_CountsReadings(country, city, day_yyyymmdd, temps, hums) ==
    [country |-> country, city |-> city, yyyymmdd |-> day_yyyymmdd,
     temp_min |-> IF temps # <<>> THEN Some(min(temps)) ELSE None,
     temp_max |-> IF temps # <<>> THEN Some(max(temps)) ELSE None,
     temp_avg |-> IF temps # <<>> THEN Some(Frac(sum(temps), Len(temps))) ELSE None,
     hum_min  |-> IF hums # <<>> THEN Some(min(hums)) ELSE None,
     hum_max  |-> IF hums # <<>> THEN Some(max(hums)) ELSE None,
     hum_avg  |-> IF hums # <<>> THEN Some(Frac(sum(hums), Len(hums))) ELSE None,
     samples  |-> IF Len(temps) > Len(hums) THEN Len(temps) ELSE Len(hums)]

StatsRow(country, city, day_yyyymmdd, temps, hums) ==
    [country |-> country, city |-> city, yyyymmdd |-> day_yyyymmdd,
     temp_min |-> IF temps # <<>> THEN Some(min(temps)) ELSE None,
     temp_max |-> IF temps # <<>> THEN Some(max(temps)) ELSE None,
     temp_avg |-> IF temps # <<>> THEN Some(Frac(sum(temps), Len(temps))) ELSE None,
     hum_min  |-> IF hums # <<>> THEN Some(min(hums)) ELSE None,
     hum_max  |-> IF hums # <<>> THEN Some(max(hums)) ELSE None,
     hum_avg  |-> IF hums # <<>> THEN Some(Frac(sum(hums), Len(hums))) ELSE None,
     samples  |-> Len(temps) + Len(hums)]

SameStatsKey(a, b) ==
    a.country = b.country /\ a.city = b.city /\ a.yyyymmdd = b.yyyymmdd

(* a bug a read-modify-write roll-up would have: samples pile up *)
InsertStats_Accumulate(tbl, row) ==
    LET old == {r \in tbl : SameStatsKey(r, row)}
        n   == IF old = {} THEN 0 ELSE (CHOOSE r \in old : TRUE).samples
    IN  (tbl \ old) \cup {[row EXCEPT !.samples = @ + n]}

(* a bug: INSERT ... IF NOT EXISTS, the row already stored stays *)
InsertStats_IfNotExists(tbl, row) ==
    IF \E r \in tbl : SameStatsKey(r, row) THEN tbl ELSE tbl \cup {row}

InsertStats(tbl, row) == {r \in tbl : ~SameStatsKey(r, row)} \cup {row}

(* a bug: the empty day is written as a row of absent statistics *)
rollup_daily_for_city_EmptyRow(tbl, st, country, city, day_yyyymmdd) ==
    LET rs    == CityDayScan(tbl, country, city, day_yyyymmdd)
        temps == TempsOf(rs)
        hums  == HumsOf(rs)
    IN  [result |-> IF temps = <<>> /\ hums = <<>> THEN None ELSE Some(TRUE),
         stats  |-> InsertStats(st, StatsRow(country, city, day_yyyymmdd, temps, hums))]

(* the value returned (None or True) and the stats table afterwards *)
rollup_daily_for_city(tbl, st, country, city, day_yyyymmdd) ==
    LET rs    == CityDayScan(tbl, country, city, day_yyyymmdd)
        temps == TempsOf(rs)
        hums  == HumsOf(rs)
    IN  IF temps = <<>> /\ hums = <<>>
        THEN [result |-> None, stats |-> st]
        ELSE [result |-> Some(TRUE),
              stats  |-> InsertStats(st, StatsRow(country, city, day_yyyymmdd, temps, hums))]

----------------------------------------------------------------------------
(* Command handlers *)

(* datetime + timedelta(hours=1), within the day *)
AddHour(dt) == dt + 1

(* cassandra_part.py insert-measure: normalize --hum, then the dual write.  *)
(* temp and hum are the optional --temp and --hum arguments.                *)
CmdInsertMeasure(sensor_id, city, country, temp, hum, when, outcome) ==
    /\ nIns < MaxInserts
    /\ LET hum_norm == normalize_humidity(hum)
       IN  /\ insert_measurement(sensor_id, when, temp, hum_norm, city, country, outcome)
           /\ last' = [op |-> "insert-measure", sensor_id |-> sensor_id, when |-> when,
                       temperature |-> temp, hum |-> hum, humidity |-> hum_norm,
                       city |-> city, country |-> country, outcome |-> outcome]
    /\ nIns' = nIns + 1
    /\ UNCHANGED stats

(* menu.py opt_2_cassandra with one generated step (1 hour, 60 minutes):    *)
(* the upsert_sensor call raises KeyError on the missing "lat" and guard    *)
(* swallows it; one generated reading is normalized and inserted, a raised  *)
(* insert is counted and not propagated; then the inserted range is read.   *)
Opt2Cassandra(sensor_id, city, country, start, temp, hum_v, outcome) ==
    /\ nIns < MaxInserts
    /\ hum_v # None /\ temp # None
    /\ LET hum_norm == normalize_humidity(hum_v)
       IN  /\ insert_measurement(sensor_id, start, temp, hum_norm, city, country, outcome)
           /\ last' = [op |-> "opt_2", sensor_id |-> sensor_id, when |-> start,
                       temperature |-> temp, hum |-> hum_v, humidity |-> hum_norm,
                       city |-> city, country |-> country, outcome |-> outcome,
                       rows |-> query_sensor_range(bySensor', sensor_id,
                                                   start, AddHour(start))]
    /\ nIns' = nIns + 1
    /\ UNCHANGED stats

(* cassandra_part.py query *)
CmdQuery(sensor_id, start, end) ==
    /\ last' = [op |-> "query", sensor_id |-> sensor_id, start |-> start, end |-> end,
                rows |-> query_sensor_range(bySensor, sensor_id, start, end)]
    /\ UNCHANGED <<bySensor, byCity, stats, failed, nIns>>

(* cassandra_part.py rollup; outcome "fail": an execute raises, which can   *)
(* only leave the stats table as it was                                     *)
CmdRollup(country, city, day_yyyymmdd, outcome) ==
    LET r == rollup_daily_for_city(byCity, stats, country, city, day_yyyymmdd)
    IN  /\ stats' = IF outcome = "ok" THEN r.stats ELSE stats
        /\ last' = [op |-> "rollup", country |-> country, city |-> city,
                    yyyymmdd |-> day_yyyymmdd, outcome |-> outcome,
                    result |-> IF outcome = "ok" THEN r.result ELSE None,
                    \* history: the command before was the same roll-up
                    repeat |-> /\ last.op = "rollup" /\ last.outcome = "ok"
                               /\ last.country = country /\ last.city = city
                               /\ last.yyyymmdd = day_yyyymmdd]
        /\ UNCHANGED <<bySensor, byCity, failed, nIns>>

----------------------------------------------------------------------------
(* Inputs *)

AR == [country |-> "AR", city |-> "Buenos Aires"]
UY == [country |-> "UY", city |-> "Montevideo"]

Outcomes == {"ok", "fail1", "fail2"}

(* nothing in flight, no session, an empty Redis *)
InitBeyond ==
    /\ inflight = [tasks |-> {}, started |-> 0, newest |-> None]
    /\ sessions = <<>>
    /\ cache = <<>>
    /\ alertState = <<>>
    /\ activeIdx = {}
    /\ calls = {}
    /\ queue = <<>>

Init ==
    /\ bySensor = {}
    /\ byCity = {}
    /\ stats = {}
    /\ last = [op |-> "start"]
    /\ failed = FALSE
    /\ nIns = 0
    /\ sensor = {}
    /\ requests = <<>>
    /\ executions = <<>>
    /\ usage = <<>>
    /\ alerts = <<>>
    /\ clock = 0
    /\ InitBeyond

DoInsertMeasure(SS, PP, TT, HH, II, OO) ==
    \E sensor_id \in SS, p \in PP, temp \in TT, hum \in HH, when \in II, outcome \in OO :
        CmdInsertMeasure(sensor_id, p.city, p.country, temp, hum, when, outcome) /\ UNCHANGED outside

DoGenerate(SS, PP, TT, HH, II, OO) ==
    \E sensor_id \in SS, p \in PP, temp \in TT, hum \in HH, when \in II, outcome \in OO :
        Opt2Cassandra(sensor_id, p.city, p.country, when, temp, hum, outcome) /\ UNCHANGED outside

DoQuery(SS, Starts, Ends) ==
    \E sensor_id \in SS, start \in Starts, end \in Ends :
        CmdQuery(sensor_id, start, end) /\ UNCHANGED outside

DoRollup(PP, II, OO) ==
    \E p \in PP, when \in II, outcome \in OO :
        CmdRollup(p.country, p.city, yyyymmdd(when), outcome) /\ UNCHANGED outside

----------------------------------------------------------------------------
(* Spec: ingestion into the two views, one sensor reporting from two places *)

Sensors == {"S1"}
Places == {AR, UY}
Temps == {Some(5), Some(46)}
RawHums == {None, Some(55 * One)}
Instants == {Dt(2024, 1, 1, 0), Dt(2024, 1, 1, 12)}

InsertMeasure == DoInsertMeasure(Sensors, Places, Temps, RawHums, Instants, Outcomes)

Query == DoQuery(Sensors, Instants, Instants)

Rollup == DoRollup(Places, Instants, {"ok", "fail"})

Next == InsertMeasure \/ Query \/ Rollup

Spec == Init /\ [][Next]_vars

----------------------------------------------------------------------------
(* Claims on the two views (Spec) *)

IsInsert(l) == l.op \in {"insert-measure", "opt_2"}

SameReading(a, b) ==
    /\ a.sensor_id = b.sensor_id /\ a.ts = b.ts
    /\ a.temperature = b.temperature /\ a.humidity = b.humidity

(* the by-sensor view holds the reading the command l wrote *)
SensorHolds(tbl, l) ==
    \E r \in tbl : /\ r.sensor_id = l.sensor_id /\ r.ts = l.when
                   /\ r.temperature = l.temperature /\ r.humidity = l.humidity

(* the by-city view holds the reading the command l wrote *)
CityHolds(tbl, l) ==
    \E c \in tbl : /\ c.country = l.country /\ c.city = l.city
                   /\ c.sensor_id = l.sensor_id /\ c.ts = l.when
                   /\ c.temperature = l.temperature /\ c.humidity = l.humidity

(* C1: as long as no insert has failed, every by-sensor reading has a      *)
(* by-city row for the same (sensor_id, ts) with the same temperature and  *)
(* humidity, and every by-city row has such a by-sensor counterpart.       *)
C1_ViewsAgree ==
    ~failed =>
        /\ \A r \in bySensor : \E c \in byCity : SameReading(r, c)
        /\ \A c \in byCity : \E r \in bySensor : SameReading(c, r)

(* C4: no step changes the temperature or humidity stored for a reading    *)
(* that is already in a view: every stored row is still there, with the    *)
(* same values, after the step.                                            *)
C4_MeasurementImmutable ==
    [][ /\ \A r \in bySensor : \E q \in bySensor' :
               SameSensorKey(r, q) /\ SameReading(r, q)
        /\ \A c \in byCity : \E q \in byCity' :
               SameCityKey(c, q) /\ SameReading(c, q) ]_vars

----------------------------------------------------------------------------
(* SpecHum: the two ingestion handlers over a wide range of raw humidities *)

HumSensors == {"S1"}
HumPlaces == {AR}
HumTemps == {None, Some(5)}
(* absent, -3, 0, 0.2, 0.55, 1, 55, 100, 101 *)
HumRaw == {None, Some(-3 * One), Some(0), Some(2000), Some(5500), Some(One),
           Some(55 * One), Some(100 * One), Some(101 * One)}

HumInsertMeasure ==
    DoInsertMeasure(HumSensors, HumPlaces, HumTemps, HumRaw, Instants, Outcomes)

HumGenerate ==
    DoGenerate(HumSensors, HumPlaces, HumTemps, HumRaw, Instants, Outcomes)

HumQuery == DoQuery(HumSensors, Instants, Instants)

NextHum == HumInsertMeasure \/ HumGenerate \/ HumQuery

SpecHum == Init /\ [][NextHum]_vars

InUnitInterval(h) == h = None \/ (0 <= Val(h) /\ Val(h) <= One)

(* C5: every humidity stored in either view is absent or within [0,1],     *)
(* whatever raw humidity the ingestion handlers were given.                *)
C5_StoredHumidityInUnitInterval ==
    /\ \A r \in bySensor : InUnitInterval(r.humidity)
    /\ \A c \in byCity : InUnitInterval(c.humidity)

(* a raw humidity outside [0,1] went in and both views hold the reading    *)
C5_Witness ==
    /\ IsInsert(last) /\ last.outcome = "ok"
    /\ last.hum \in {Some(55 * One), Some(101 * One), Some(-3 * One)}
    /\ SensorHolds(bySensor, last) /\ CityHolds(byCity, last)
    /\ \E r \in bySensor : r.humidity = Some(5500)
    /\ \E r \in bySensor : r.humidity = None

----------------------------------------------------------------------------
(* SpecNorm: normalize_humidity applied to one input *)

MaxPercent == 102

NormInputs ==
    {None} \cup {Some(k * 500) : k \in -6..22}
           \cup {Some(k * One) : k \in -3..MaxPercent}

InitNorm ==
    /\ bySensor = {}
    /\ byCity = {}
    /\ stats = {}
    /\ last \in {[op |-> "input", hum |-> h] : h \in NormInputs}
    /\ failed = FALSE
    /\ nIns = 0
    /\ sensor = {}
    /\ requests = <<>>
    /\ executions = <<>>
    /\ usage = <<>>
    /\ alerts = <<>>
    /\ clock = 0
    /\ InitBeyond

Normalize ==
    /\ last.op = "input"
    /\ last' = [op |-> "normalize_humidity", hum |-> last.hum,
                humidity |-> normalize_humidity(last.hum)]
    /\ UNCHANGED <<bySensor, byCity, stats, failed, nIns>>
    /\ UNCHANGED outside

NextNorm == Normalize

SpecNorm == InitNorm /\ [][NextNorm]_vars

(* C6: h in [0,1] gives h; h in (1,100] gives h/100; anything else, absent *)
(* included, gives no value; 0.55 -> 0.55, 55 -> 0.55, 101 and -3 -> none. *)
C6_NormalizeHumidity ==
    last.op = "normalize_humidity" =>
        LET h == last.hum
            out == last.humidity
        IN  /\ (h # None /\ 0 <= Val(h) /\ Val(h) <= One) => out = h
            /\ (h # None /\ One < Val(h) /\ Val(h) <= 100 * One) =>
                   (out # None /\ Val(out) * 100 = Val(h))
            /\ (h = None \/ (h # None /\ (Val(h) < 0 \/ Val(h) > 100 * One))) =>
                   out = None
            /\ h = Some(5500) => out = Some(5500)
            /\ h = Some(55 * One) => out = Some(5500)
            /\ h \in {Some(101 * One), Some(-3 * One)} => out = None

C6_Witness ==
    /\ last.op = "normalize_humidity"
    /\ last.hum = Some(101 * One)
    /\ last.humidity = None

----------------------------------------------------------------------------
(* SpecQuery: range queries over readings spread across 13 months *)

QSensors == {"S1", "S2"}
QPlaces == {AR}
QTemps == {Some(5), Some(46)}
QHums == {Some(55 * One)}
QInstants == {Dt(2024, 1, 1, 0), Dt(2024, 1, 15, 12), Dt(2024, 2, 29, 23),
              Dt(2025, 1, 31, 12)}

(* range bounds: within one month, over two, twelve and thirteen months,    *)
(* a single instant, and a start later than the end                        *)
QStarts == {Dt(2024, 1, 1, 0), Dt(2024, 2, 29, 23)}
QEnds == {Dt(2024, 1, 15, 12), Dt(2024, 2, 29, 23), Dt(2025, 1, 31, 12)}

(* the range query reads the by-sensor view alone, which a failed second   *)
(* write leaves as a successful call does: only successful calls are drawn *)
QInsertMeasure ==
    DoInsertMeasure(QSensors, QPlaces, QTemps, QHums, QInstants, {"ok"})

QQuery == DoQuery(QSensors, QStarts, QEnds)

NextQuery == QInsertMeasure \/ QQuery

SpecQuery == Init /\ [][NextQuery]_vars

(* the reading the command l wrote, as a row of a query result *)
ReadingOf(l) == [ts |-> l.when, temperature |-> l.temperature, humidity |-> l.humidity]

Returns(rows, reading) == \E i \in 1..Len(rows) : rows[i] = reading

(* C2: right after insert_measurement(sensor_id, ts, t, h, ...) succeeded,  *)
(* query_sensor_range(sensor_id, start, end) returns a reading at ts with   *)
(* temperature t and humidity h, for every start <= ts <= end.              *)
C2_RoundTrip ==
    (IsInsert(last) /\ last.outcome = "ok") =>
        \A start \in QStarts, end \in QEnds :
            (start <= last.when /\ last.when <= end) =>
                Returns(query_sensor_range(bySensor, last.sensor_id, start, end),
                        ReadingOf(last))

(* a reading written in January 2025 is returned by a query that starts in *)
(* January 2024, twelve partitions earlier                                 *)
C2_Witness ==
    /\ IsInsert(last) /\ last.outcome = "ok"
    /\ last.when = Dt(2025, 1, 31, 12)
    /\ LET rows == query_sensor_range(bySensor, last.sensor_id,
                                      Dt(2024, 1, 1, 0), Dt(2025, 1, 31, 12))
       IN  Len(rows) >= 2 /\ Returns(rows, ReadingOf(last))

(* months counted from year 0 *)
MonthIndex(dt) == Year(dt) * 12 + Month(dt) - 1

(* the partition key year*100+month of a month index *)
PartitionKey(k) == (k \div 12) * 100 + (k % 12) + 1

(* the calendar months from the month of start through the month of end *)
MonthsThrough(start, end) ==
    [i \in 1..(MonthIndex(end) - MonthIndex(start) + 1) |->
        PartitionKey(MonthIndex(start) + i - 1)]

(* C22: for start <= end the range query reads one partition per calendar   *)
(* month from the month of start through the month of end, in ascending     *)
(* order across year boundaries, and returns the partitions' rows one after *)
(* the other as read.                                                       *)
C22_OnePartitionPerMonth ==
    (last.op = "query" /\ last.start <= last.end) =>
        /\ sorted(MonthsTouched(last.start, last.end))
               = MonthsThrough(last.start, last.end)
        /\ last.rows = ExtendAll(bySensor, last.sensor_id,
                                 MonthsThrough(last.start, last.end),
                                 last.start, last.end)
        /\ (yyyymm(last.start) = yyyymm(last.end)
               => Len(sorted(MonthsTouched(last.start, last.end))) = 1)

(* a query from January 2024 to January 2025: thirteen partitions, the last *)
(* of the next year, with a row from the first and a row from the last      *)
C22_Witness ==
    /\ last.op = "query"
    /\ last.start = Dt(2024, 1, 1, 0) /\ last.end = Dt(2025, 1, 31, 12)
    /\ Len(sorted(MonthsTouched(last.start, last.end))) = 13
    /\ Len(last.rows) = 2
    /\ yyyymm(last.rows[1].ts) = 202401 /\ yyyymm(last.rows[2].ts) = 202501

(* a query within February 2024: one partition *)
C22_WitnessSameMonth ==
    /\ last.op = "query"
    /\ last.start = Dt(2024, 2, 29, 23) /\ last.end = Dt(2024, 2, 29, 23)
    /\ sorted(MonthsTouched(last.start, last.end)) = <<202402>>
    /\ Len(last.rows) = 1

HasRows(l) == l.op \in {"query", "opt_2"}

(* C3: the rows a range query returns are non-decreasing by timestamp.     *)
C3_QuerySorted ==
    HasRows(last) =>
        \A i \in 1..Len(last.rows), j \in 1..Len(last.rows) :
            i <= j => last.rows[i].ts <= last.rows[j].ts

(* a query over 13 calendar months, across the year boundary, that returned *)
(* rows from both years                                                     *)
C3_Witness ==
    /\ last.op = "query"
    /\ Cardinality(MonthsTouched(last.start, last.end)) = 13
    /\ Len(last.rows) >= 2
    /\ Year(last.rows[1].ts) = 2024
    /\ Year(last.rows[Len(last.rows)].ts) = 2025

(* queries over one and over two calendar months that returned two rows *)
C3_WitnessShort ==
    /\ last.op = "query"
    /\ Cardinality(MonthsTouched(last.start, last.end)) \in {1, 2}
    /\ Len(last.rows) >= 2

----------------------------------------------------------------------------
(* SpecRollup: daily roll-ups of one city over two days *)

RSensors == {"S1"}
RPlaces == {AR}
RTemps == {None, Some(5), Some(46)}
RHums == {None, Some(2000), Some(55 * One)}
RInstants == {Dt(2024, 1, 1, 0), Dt(2024, 1, 1, 12), Dt(2024, 1, 2, 0)}

(* the roll-up reads the by-city view alone, which a failed insert leaves  *)
(* as it was: only successful calls are drawn                              *)
RInsertMeasure ==
    DoInsertMeasure(RSensors, RPlaces, RTemps, RHums, RInstants, {"ok"})

RRollup == DoRollup(RPlaces, RInstants, {"ok", "fail"})

NextRollup == RInsertMeasure \/ RRollup

SpecRollup == Init /\ [][NextRollup]_vars

(* the readings now in the city-day partition of the roll-up l *)
PartitionOf(l) ==
    {r \in byCity : r.country = l.country /\ r.city = l.city /\ r.yyyymmdd = l.yyyymmdd}

(* the stats rows now stored under the key of the roll-up l *)
StatsOf(tbl, l) ==
    {r \in tbl : r.country = l.country /\ r.city = l.city /\ r.yyyymmdd = l.yyyymmdd}

RolledUp(l) == l.op = "rollup" /\ l.outcome = "ok"

(* C7: a roll-up that directly follows a roll-up of the same               *)
(* (country, city, day) leaves the stats table as the first left it and    *)
(* returns what the first returned.                                        *)
C7_RollupIdempotent ==
    [][ (RolledUp(last') /\ last'.repeat) =>
            (stats' = stats /\ last'.result = last.result) ]_vars

C7_Witness ==
    /\ RolledUp(last) /\ last.repeat
    /\ last.result = Some(TRUE)
    /\ \E r \in StatsOf(stats, last) : r.samples >= 3

(* C8: a roll-up of a city-day that holds no reading with a present        *)
(* temperature or humidity returns no data and leaves the stats table      *)
(* as it was.                                                               *)
C8_NoDataNoWrite ==
    [][ (RolledUp(last') /\ \A r \in PartitionOf(last') :
                                r.temperature = None /\ r.humidity = None) =>
            (last'.result = None /\ stats' = stats) ]_vars

(* a city-day whose only readings have both channels absent was rolled up: *)
(* no data, and no stats row for it                                        *)
C8_Witness ==
    /\ RolledUp(last) /\ last.result = None
    /\ PartitionOf(last) # {}
    /\ StatsOf(stats, last) = {}

RECURSIVE SumOf(_, _)
(* the sum of channel ch over a set of readings that all have it *)
SumOf(S, ch) ==
    IF S = {} THEN 0
    ELSE LET r == CHOOSE x \in S : TRUE IN Val(r[ch]) + SumOf(S \ {r}, ch)

(* lo, hi and avg are the minimum, maximum and mean of channel ch over the *)
(* readings of S that have it, and all absent when none has it             *)
ChannelStats(S, ch, lo, hi, avg) ==
    LET P == {r \in S : r[ch] # None}
    IN  IF P = {}
        THEN lo = None /\ hi = None /\ avg = None
        ELSE /\ lo # None /\ hi # None /\ avg # None
             /\ \E r \in P : r[ch] = lo
             /\ \A r \in P : Val(lo) <= Val(r[ch])
             /\ \E r \in P : r[ch] = hi
             /\ \A r \in P : Val(hi) >= Val(r[ch])
             /\ Val(avg).den > 0
             /\ Val(avg).num * Cardinality(P) = Val(avg).den * SumOf(P, ch)

C9_WitnessAbsent ==
    /\ RolledUp(last) /\ last.result = Some(TRUE)
    /\ \E row \in StatsOf(stats, last) :
        row.hum_min = None /\ row.hum_max = None /\ row.hum_avg = None

(* what one reading adds to the sample count: one per present channel *)
Contribution(r) ==
    (IF r.temperature # None THEN 1 ELSE 0) + (IF r.humidity # None THEN 1 ELSE 0)

RECURSIVE Contributions(_)
Contributions(S) ==
    IF S = {} THEN 0
    ELSE LET r == CHOOSE x \in S : TRUE IN Contribution(r) + Contributions(S \ {r})

(* C23: the sample count a roll-up stores is the number of present          *)
(* temperature values plus the number of present humidity values among the  *)
(* readings of the day: 2 for a reading with both channels, 1 for a reading *)
(* with one.                                                                *)
C23_SamplesCountValues ==
    (RolledUp(last) /\ last.result = Some(TRUE)) =>
        \A row \in StatsOf(stats, last) :
            /\ row.samples = Contributions(PartitionOf(last))
            /\ row.samples =
                   Cardinality({r \in PartitionOf(last) : r.temperature # None})
                       + Cardinality({r \in PartitionOf(last) : r.humidity # None})

(* a day with one reading of both channels and one of temperature alone:    *)
(* three samples from two readings                                          *)
C23_Witness ==
    /\ RolledUp(last) /\ last.result = Some(TRUE)
    /\ Cardinality(PartitionOf(last)) = 2
    /\ \E r \in PartitionOf(last) : r.temperature # None /\ r.humidity # None
    /\ \E r \in PartitionOf(last) : r.temperature # None /\ r.humidity = None
    /\ \E row \in StatsOf(stats, last) : row.samples = 3

----------------------------------------------------------------------------
(* Request tracking (mongo_part.py) and usage metering (redis_module.py)   *)

MaxRequests == 2

(* request_process: the _id is a hash of (userId, processId, str(params)); *)
(* seed stands for the hash seed of the interpreter that runs the call, so *)
(* two calls of one process with the same arguments get the same _id       *)
ReqId(userId, processId, params, seed) ==
    [userId |-> userId, processId |-> processId, params |-> params, seed |-> seed]

(* insert_one raises DuplicateKeyError on an _id that is already stored *)
RequestRaises(reqs, req_id) == req_id \in DOMAIN reqs

request_process(reqs, req_id) == reqs @@ (req_id :> "pendiente")

(* a bug: the execution is stored but the request keeps its status *)
SetRequestStatus_Keep(reqs, requestId, status) == reqs

(* requests.update_one({"_id": requestId}, {"$set": {"status": ...}}) *)
SetRequestStatus(reqs, requestId, status) ==
    [r \in DOMAIN reqs |-> IF r = requestId THEN status ELSE reqs[r]]

(* the execution document record_execution inserts *)
ExecDoc(requestId, ok, meteredUnits) ==
    [requestId |-> requestId, status |-> IF ok THEN "ok" ELSE "fallido",
     meteredUnits |-> meteredUnits]

(* record_execution: the executions and requests collections afterwards *)
record_execution(execs, reqs, requestId, ok, meteredUnits) ==
    [executions |-> Append(execs, ExecDoc(requestId, ok, meteredUnits)),
     requests   |-> SetRequestStatus(reqs, requestId,
                                     IF ok THEN "completado" ELSE "fallido")]

(* update_process_state: an execution with meteredUnits 0 *)
update_process_state(execs, reqs, request_id, state) ==
    [executions |-> Append(execs, ExecDoc(request_id, state = "completed", 0)),
     requests   |-> SetRequestStatus(reqs, request_id,
                        IF state = "completed" THEN "completado" ELSE "fallido")]

(* incr_usage: INCRBY usage:{userId}:{yyyymm} units *)
incr_usage(use, userId, period, units) ==
    LET key == <<userId, period>>
    IN  IF key \in DOMAIN use
        THEN [use EXCEPT ![key] = @ + units]
        ELSE use @@ (key :> units)

----------------------------------------------------------------------------
(* Monthly reports (app.py, menu.py) *)

(* a bug: every fourth year is a leap year *)
monthrange_Julian(year, month) ==
    IF month = 2 THEN (IF year % 4 = 0 THEN 29 ELSE 28)
    ELSE IF month \in {4, 6, 9, 11} THEN 30 ELSE 31

(* calendar.monthrange(year, month)[1] *)
monthrange(year, month) ==
    IF month = 2
    THEN (IF (year % 4 = 0 /\ year % 100 # 0) \/ year % 400 = 0 THEN 29 ELSE 28)
    ELSE IF month \in {4, 6, 9, 11} THEN 30 ELSE 31

(* SELECT ... FROM daily_city_stats WHERE country AND city AND yyyymmdd *)
SelectStats(tbl, country, city, day_yyyymmdd) ==
    LET S == {r \in tbl : /\ r.country = country /\ r.city = city
                          /\ r.yyyymmdd = day_yyyymmdd}
    IN  IF S = {} THEN <<>> ELSE <<CHOOSE r \in S : TRUE>>

RECURSIVE DayLoop(_, _, _, _, _, _, _, _, _)
(* for day in range(1, last_day + 1): roll the day up, then collect its    *)
(* stats row; fail_day is the day whose roll-up raises (0: none does).     *)
(* acc: the stats table, the rows collected, the days rolled up so far.    *)
DayLoop(tbl, country, city, year, month, day, last_day, fail_day, acc) ==
    LET ymd == year * 10000 + month * 100 + day
    IN  IF acc.raised \/ day > last_day THEN acc
        ELSE IF day = fail_day
        THEN [acc EXCEPT !.called = Append(@, ymd), !.raised = TRUE]
        ELSE LET r == rollup_daily_for_city(tbl, acc.stats, country, city, ymd)
             IN  DayLoop(tbl, country, city, year, month, day + 1, last_day, fail_day,
                         [stats   |-> r.stats,
                          results |-> acc.results \o SelectStats(r.stats, country, city, ymd),
                          called  |-> Append(acc.called, ymd),
                          raised  |-> FALSE])

RECURSIVE Present(_, _)
(* [float(x.f) for x in results if x.f is not None] *)
Present(results, f) ==
    IF results = <<>> THEN <<>>
    ELSE (IF Head(results)[f] # None THEN <<Val(Head(results)[f])>> ELSE <<>>)
            \o Present(Tail(results), f)

(* a bug: the lowest of the daily maxima *)
MaxDefault_Min(xs) == IF xs = <<>> THEN None ELSE Some(min(xs))

(* max(xs, default=None) *)
MaxDefault(xs) == IF xs = <<>> THEN None ELSE Some(max(xs))

(* min(xs, default=None) *)
MinDefault(xs) == IF xs = <<>> THEN None ELSE Some(min(xs))

(* a bug: a month without a temperature counts as a month without data *)
HasResults_NeedsTemp(results) == Present(results, "temp_max") # <<>>

(* if results: *)
HasResults(results) == results # <<>>

(* a bug: the metering error reaches the caller *)
MeteringPropagates_Raise(outcome) == outcome = "incr_fail"

(* try: rds.incr_usage(...) except Exception: pass *)
MeteringPropagates(outcome) == FALSE

PROCESS_ID == "proc_temp_max_min"

(* the params document of the request: country, city, from, to *)
Params(country, city, year, month) ==
    [country |-> country, city |-> city,
     from |-> year * 10000 + month * 100 + 1,
     to   |-> year * 10000 + month * 100 + monthrange(year, month)]

(* what a report that raised leaves in last *)
Raised(op, user_id, country, city, year, month, outcome, req_id, called, error) ==
    [op |-> op, user_id |-> user_id, country |-> country, city |-> city,
     year |-> year, month |-> month, outcome |-> outcome, req_id |-> req_id,
     called |-> called, raised |-> TRUE, error |-> error, result |-> None]

(* run_monthly_city_report. outcome: "ok"; "cas_fail" (the roll-up of day   *)
(* fail_day raises); "track_fail" (record_execution raises on its insert);  *)
(* "incr_fail" (incr_usage raises).                                         *)
run_monthly_city_report(user_id, country, city, year, month, seed, outcome, fail_day) ==
    LET last_day == monthrange(year, month)
        params   == Params(country, city, year, month)
        req_id   == ReqId(user_id, PROCESS_ID, params, seed)
        loop     == DayLoop(byCity, country, city, year, month, 1, last_day,
                            IF outcome = "cas_fail" THEN fail_day ELSE 0,
                            [stats |-> stats, results |-> <<>>, called |-> <<>>,
                             raised |-> FALSE])
        results  == loop.results
        ok       == HasResults(results)
        units    == IF ok THEN Len(results) ELSE 0
        rec      == record_execution(executions, request_process(requests, req_id),
                                     req_id, ok, units)
        metered  == ok /\ outcome # "incr_fail"
        out      == IF ok
                    THEN [ok |-> TRUE, req_id |-> req_id,
                          exec_id |-> Len(rec.executions),
                          temp_max |-> MaxDefault(Present(results, "temp_max")),
                          temp_min |-> MinDefault(Present(results, "temp_min")),
                          from |-> params.from, to |-> params.to,
                          days |-> Len(results)]
                    ELSE [ok |-> FALSE, req_id |-> req_id, error |-> "sin datos",
                          from |-> params.from, to |-> params.to]
    IN  IF RequestRaises(requests, req_id)
        THEN /\ last' = Raised("extremes", user_id, country, city, year, month,
                               outcome, req_id, <<>>, "DuplicateKeyError")
             /\ UNCHANGED <<stats, requests, executions, usage>>
        ELSE /\ Cardinality(DOMAIN requests) < MaxRequests
             /\ stats' = loop.stats
             /\ IF loop.raised \/ outcome = "track_fail"
                THEN /\ requests' = request_process(requests, req_id)
                     /\ last' = Raised("extremes", user_id, country, city, year, month,
                                       outcome, req_id, loop.called,
                                       IF loop.raised THEN "cassandra" ELSE "mongo")
                     /\ UNCHANGED <<executions, usage>>
                ELSE /\ requests' = rec.requests
                     /\ executions' = rec.executions
                     /\ usage' = IF metered
                                 THEN incr_usage(usage, user_id, year * 100 + month,
                                                 Len(results))
                                 ELSE usage
                     /\ last' = IF ok /\ MeteringPropagates(outcome)
                                THEN Raised("extremes", user_id, country, city, year,
                                            month, outcome, req_id, loop.called, "redis")
                                ELSE [op |-> "extremes", user_id |-> user_id,
                                      country |-> country, city |-> city,
                                      year |-> year, month |-> month,
                                      outcome |-> outcome, req_id |-> req_id,
                                      called |-> loop.called, raised |-> FALSE,
                                      result |-> Some(out)]

(* the readings of one city in one month, as the month-wide query reads them *)
MonthScan(tbl, country, city, year, month) ==
    SeqByTsSensor({r \in tbl : /\ r.country = country /\ r.city = city
                               /\ r.yyyymmdd \div 100 = year * 100 + month})

(* cas.get_avg_temp_hum: month-wide averages and sample counts *)
get_avg_temp_hum(tbl, country, city, year, month) ==
    LET rs    == MonthScan(tbl, country, city, year, month)
        temps == TempsOf(rs)
        hums  == HumsOf(rs)
    IN  [temp_avg |-> IF temps # <<>> THEN Some(Frac(sum(temps), Len(temps))) ELSE None,
         hum_avg  |-> IF hums # <<>> THEN Some(Frac(sum(hums), Len(hums))) ELSE None,
         temp_samples |-> Len(temps), hum_samples |-> Len(hums)]

(* a bug: either channel missing fails the report *)
NoSamples_Either(summary) == summary.temp_samples = 0 \/ summary.hum_samples = 0

(* no_temp and no_hum *)
NoSamples(summary) == summary.temp_samples = 0 /\ summary.hum_samples = 0

(* run_monthly_avg_report. outcome: "ok"; "cas_fail" (the month query       *)
(* raises); "track_fail" (update_process_state raises on its insert).       *)
run_monthly_avg_report(user_id, country, city, year, month, seed, outcome) ==
    LET params  == Params(country, city, year, month)
        req_id  == ReqId(user_id, "proc_temp_promedio", params, seed)
        summary == get_avg_temp_hum(byCity, country, city, year, month)
        state   == IF NoSamples(summary) THEN "failed" ELSE "completed"
        rec     == update_process_state(executions, request_process(requests, req_id),
                                        req_id, state)
        out     == IF NoSamples(summary)
                   THEN [ok |-> FALSE, req_id |-> req_id, error |-> "sin datos",
                         from |-> params.from, to |-> params.to]
                   ELSE [ok |-> TRUE, req_id |-> req_id,
                         from |-> params.from, to |-> params.to,
                         city |-> city, country |-> country,
                         temp_avg |-> summary.temp_avg, hum_avg |-> summary.hum_avg,
                         temp_samples |-> summary.temp_samples,
                         hum_samples |-> summary.hum_samples]
    IN  /\ UNCHANGED <<stats, usage>>
        /\ IF RequestRaises(requests, req_id)
           THEN /\ last' = Raised("averages", user_id, country, city, year, month,
                                  outcome, req_id, <<>>, "DuplicateKeyError")
                /\ UNCHANGED <<requests, executions>>
           ELSE /\ Cardinality(DOMAIN requests) < MaxRequests
                /\ IF outcome \in {"cas_fail", "track_fail"}
                   THEN /\ requests' = request_process(requests, req_id)
                        /\ last' = Raised("averages", user_id, country, city, year,
                                          month, outcome, req_id, <<>>,
                                          IF outcome = "cas_fail" THEN "cassandra"
                                          ELSE "mongo")
                        /\ UNCHANGED executions
                   ELSE /\ requests' = rec.requests
                        /\ executions' = rec.executions
                        /\ last' = [op |-> "averages", user_id |-> user_id,
                                    country |-> country, city |-> city,
                                    year |-> year, month |-> month,
                                    outcome |-> outcome, req_id |-> req_id,
                                    called |-> <<>>, raised |-> FALSE,
                                    result |-> Some(out)]

DoExtremes(UU, PP, MM, SS, OO, FF) ==
    \E user_id \in UU, p \in PP, ym \in MM, seed \in SS, outcome \in OO, fail_day \in FF :
        /\ run_monthly_city_report(user_id, p.country, p.city, ym[1], ym[2],
                                   seed, outcome, fail_day)
        /\ UNCHANGED <<bySensor, byCity, failed, nIns, sensor, alerts, clock, beyond>>

DoAverages(UU, PP, MM, SS, OO) ==
    \E user_id \in UU, p \in PP, ym \in MM, seed \in SS, outcome \in OO :
        /\ run_monthly_avg_report(user_id, p.country, p.city, ym[1], ym[2], seed, outcome)
        /\ UNCHANGED <<bySensor, byCity, failed, nIns, sensor, alerts, clock, beyond>>

----------------------------------------------------------------------------
(* SpecReport: extremes reports of one city, February 2024 and 2023 *)

RepUsers == {"usr_0001"}
RepPlaces == {AR}
RepTemps == {None, Some(5), Some(46)}
RepHums == {Some(5500)}
RepInstants == {Dt(2024, 2, 1, 0), Dt(2024, 2, 29, 12)}
RepMonths == {<<2023, 2>>, <<2024, 2>>}
FailDays == {2}

RepInsertMeasure ==
    DoInsertMeasure({"S1"}, RepPlaces, RepTemps, RepHums, RepInstants, {"ok"})

Extremes ==
    DoExtremes(RepUsers, RepPlaces, RepMonths, {1}, {"ok", "incr_fail", "cas_fail"},
               FailDays)

NextReport == RepInsertMeasure \/ Extremes

SpecReport == Init /\ [][NextReport]_vars

(* the report that ran last returned a result *)
Returned(l, op) == l.op = op /\ ~l.raised

(* the stats rows now stored for the city and month of the report l *)
MonthRows(l) ==
    {r \in stats : /\ r.country = l.country /\ r.city = l.city
                   /\ r.yyyymmdd \div 100 = l.year * 100 + l.month}

(* C12: a successful extremes report gives as temp_max the highest         *)
(* temp_max, and as temp_min the lowest temp_min, of the month's daily     *)
(* rows that have a temperature (absent when none has), and as days the    *)
(* number of daily rows, not the number of calendar days.                  *)
C12_ExtremesReduce ==
    (Returned(last, "extremes") /\ Val(last.result).ok) =>
        LET out   == Val(last.result)
            withT == {r \in MonthRows(last) : r.temp_max # None}
        IN  /\ out.days = Cardinality(MonthRows(last))
            /\ withT = {} => (out.temp_max = None /\ out.temp_min = None)
            /\ withT # {} =>
                /\ \E r \in withT : r.temp_max = out.temp_max
                /\ \A r \in withT : Val(r.temp_max) <= Val(out.temp_max)
                /\ \E r \in withT : r.temp_min = out.temp_min
                /\ \A r \in withT : Val(r.temp_min) >= Val(out.temp_min)

(* two days of a 29-day month contributed, with different extremes *)
C12_Witness ==
    /\ Returned(last, "extremes") /\ Val(last.result).ok
    /\ Val(last.result).days = 2
    /\ Len(last.called) = 29
    /\ Val(last.result).temp_max = Some(46)
    /\ Val(last.result).temp_min = Some(5)

(* C13: an extremes report that returns, returns the failure result        *)
(* (ok false, "sin datos", the requested from and to) exactly when the     *)
(* month has no daily row; a month whose rows are all humidity-only is a   *)
(* success.                                                                *)
C13_ExtremesNoData ==
    Returned(last, "extremes") =>
        LET out == Val(last.result)
        IN  /\ out.ok = (MonthRows(last) # {})
            /\ ~out.ok =>
                /\ out.error = "sin datos"
                /\ out.from = last.year * 10000 + last.month * 100 + 1
                /\ out.to = last.year * 10000 + last.month * 100
                                + (IF last.year = 2024 THEN 29 ELSE 28)
            /\ (MonthRows(last) # {} /\ \A r \in MonthRows(last) : r.temp_max = None)
                   => (out.ok /\ out.temp_max = None /\ out.temp_min = None)

(* a month whose only daily row is humidity-only: success without extremes *)
C13_Witness ==
    /\ Returned(last, "extremes") /\ Val(last.result).ok
    /\ Val(last.result).temp_max = None
    /\ \E r \in MonthRows(last) : r.hum_max # None

(* a month without rows: the failure result *)
C13_WitnessNoData ==
    /\ Returned(last, "extremes") /\ ~Val(last.result).ok
    /\ byCity # {}

(* C16: when incr_usage raises in an extremes report that found data, the  *)
(* report returns its success result, with the extremes and the day count  *)
(* of the month's rows, and the execution recorded as ok and the completed *)
(* request stay as recorded; the usage counter is not touched.             *)
C16_MeteringFailureSwallowed ==
    [][ (/\ last'.op = "extremes" /\ last'.outcome = "incr_fail"
         /\ last'.req_id \notin DOMAIN requests
         /\ \E r \in stats' : /\ r.country = last'.country /\ r.city = last'.city
                              /\ r.yyyymmdd \div 100 = last'.year * 100 + last'.month) =>
            /\ ~last'.raised
            /\ Val(last'.result).ok
            /\ Val(last'.result).days =
                   Cardinality({r \in stats' :
                       /\ r.country = last'.country /\ r.city = last'.city
                       /\ r.yyyymmdd \div 100 = last'.year * 100 + last'.month})
            /\ Len(executions') = Len(executions) + 1
            /\ executions'[Len(executions')] =
                   [requestId |-> last'.req_id, status |-> "ok",
                    meteredUnits |-> Val(last'.result).days]
            /\ requests'[last'.req_id] = "completado"
            /\ usage' = usage ]_vars

(* a report whose metering failed returned success with its extremes; its  *)
(* execution is recorded and no usage counter exists                       *)
C16_Witness ==
    /\ Returned(last, "extremes") /\ last.outcome = "incr_fail"
    /\ Val(last.result).ok /\ Val(last.result).temp_max = Some(46)
    /\ Len(executions) = 1
    /\ usage = <<>>

----------------------------------------------------------------------------
(* SpecMonth: extremes reports over months of every length *)

CalMonths == {<<2023, 2>>, <<2024, 2>>, <<2100, 2>>, <<2000, 2>>, <<2024, 4>>, <<2024, 12>>}

MonthInsertMeasure ==
    DoInsertMeasure({"S1"}, {AR}, {Some(5)}, {None}, {Dt(2024, 2, 29, 12)}, {"ok"})

MonthExtremes == DoExtremes(RepUsers, {AR}, CalMonths, {1}, {"ok"}, {0})

NextMonth == MonthInsertMeasure \/ MonthExtremes

SpecMonth == Init /\ [][NextMonth]_vars

(* C11: an extremes report that returns has rolled up day 1, day 2, ...,   *)
(* day N of its month, each once and in this order, N being the length of  *)
(* the month: 29 for February 2024 and 2000, 28 for February 2023 and 2100. *)
C11_ReportIteratesMonth ==
    Returned(last, "extremes") =>
        LET N == IF last.month = 2
                 THEN (IF last.year \in {2000, 2024} THEN 29 ELSE 28)
                 ELSE IF last.month = 4 THEN 30 ELSE 31
        IN  /\ Len(last.called) = N
            /\ \A i \in 1..N :
                   last.called[i] = last.year * 10000 + last.month * 100 + i

(* February of a non-leap year: 28 roll-ups, the last one for the 28th *)
C11_Witness ==
    /\ Returned(last, "extremes")
    /\ last.year = 2023 /\ last.month = 2
    /\ Len(last.called) = 28 /\ last.called[28] = 20230228

(* February of a leap year: 29 roll-ups, and the 29th found the reading *)
C11_WitnessLeap ==
    /\ Returned(last, "extremes")
    /\ last.year = 2024 /\ last.month = 2
    /\ Len(last.called) = 29 /\ Val(last.result).ok

----------------------------------------------------------------------------
(* SpecAverages: averages reports of one city *)

AvgHums == {None, Some(5500)}

AvgInsertMeasure ==
    DoInsertMeasure({"S1"}, RepPlaces, RepTemps, AvgHums, RepInstants, {"ok"})

Averages == DoAverages(RepUsers, RepPlaces, RepMonths, {1}, {"ok", "cas_fail"})

NextAverages == AvgInsertMeasure \/ Averages

SpecAverages == Init /\ [][NextAverages]_vars

(* the readings now stored for the city and month of the report l *)
MonthReadings(l) ==
    {r \in byCity : /\ r.country = l.country /\ r.city = l.city
                    /\ r.yyyymmdd \div 100 = l.year * 100 + l.month}

(* C14: an averages report that returns fails exactly when the month has   *)
(* neither a temperature nor a humidity sample; with temperatures only it  *)
(* succeeds, reporting hum_samples = 0 and the mean temperature.           *)
C14_AveragesNoData ==
    Returned(last, "averages") =>
        LET out == Val(last.result)
            T   == {r \in MonthReadings(last) : r.temperature # None}
            H   == {r \in MonthReadings(last) : r.humidity # None}
        IN  /\ out.ok = ~(T = {} /\ H = {})
            /\ out.ok => (/\ out.temp_samples = Cardinality(T)
                          /\ out.hum_samples = Cardinality(H))
            /\ (T # {} /\ H = {}) =>
                /\ out.ok /\ out.hum_samples = 0 /\ out.hum_avg = None
                /\ out.temp_avg # None
                /\ Val(out.temp_avg).num * Cardinality(T)
                       = Val(out.temp_avg).den * SumOf(T, "temperature")

(* two temperature-only readings: success, no humidity sample, mean 25.5 *)
C14_Witness ==
    /\ Returned(last, "averages") /\ Val(last.result).ok
    /\ Val(last.result).hum_samples = 0
    /\ Val(last.result).temp_samples = 2
    /\ Val(last.result).temp_avg = Some([num |-> 51, den |-> 2])

(* readings exist but none has a channel: the failure result *)
C14_WitnessNoData ==
    /\ Returned(last, "averages") /\ ~Val(last.result).ok
    /\ MonthReadings(last) # {}

----------------------------------------------------------------------------
(* SpecTrack: both reports against the request tracking, from two          *)
(* interpreter processes                                                   *)

HashSeeds == {1, 2}
TrackMonths == {<<2024, 2>>}

TrackInsertMeasure ==
    DoInsertMeasure({"S1"}, {AR}, {Some(46)}, {None}, {Dt(2024, 2, 29, 12)}, {"ok"})

TrackExtremes ==
    DoExtremes(RepUsers, {AR}, TrackMonths, HashSeeds,
               {"ok", "incr_fail", "cas_fail", "track_fail"}, FailDays)

TrackAverages ==
    DoAverages(RepUsers, {AR}, TrackMonths, HashSeeds, {"ok", "cas_fail", "track_fail"})

NextTrack == TrackInsertMeasure \/ TrackExtremes \/ TrackAverages

SpecTrack == Init /\ [][NextTrack]_vars

(* C15: a report step that returns a result has created its request, which *)
(* did not exist before, and appended exactly one execution for it: ok and  *)
(* request completado on success, fallido on failure, with meteredUnits    *)
(* the number of contributing days for a successful extremes report.       *)
C15_OutcomeRecordedBeforeReturn ==
    [][ (last'.op \in {"extremes", "averages"} /\ ~last'.raised) =>
            LET out == Val(last'.result)
                e   == executions'[Len(executions')]
            IN  /\ last'.req_id \notin DOMAIN requests
                /\ last'.req_id \in DOMAIN requests'
                /\ Len(executions') = Len(executions) + 1
                /\ \A i \in 1..Len(executions) : executions'[i] = executions[i]
                /\ e.requestId = last'.req_id
                /\ \A i \in 1..Len(executions) : executions[i].requestId # last'.req_id
                /\ e.status = (IF out.ok THEN "ok" ELSE "fallido")
                /\ requests'[last'.req_id] = (IF out.ok THEN "completado" ELSE "fallido")
                /\ (last'.op = "extremes" /\ out.ok) => e.meteredUnits = out.days
                /\ out.req_id = last'.req_id ]_vars

(* a successful extremes report after a failed averages report: two        *)
(* executions, one per request                                             *)
C15_Witness ==
    /\ Returned(last, "extremes") /\ Val(last.result).ok
    /\ Len(executions) = 2
    /\ executions[1].status = "fallido" /\ executions[2].status = "ok"
    /\ executions[2].meteredUnits = 1
    /\ requests[last.req_id] = "completado"

(* a step of one of the two monthly reports *)
ReportStep == last'.op \in {"extremes", "averages"}

(* C25: the request a report invocation creates is 'completado' or         *)
(* 'fallido' when the invocation has ended, whether it returned a result   *)
(* or a store failure propagated out of it; none is left 'pendiente'.      *)
C25_NoRequestLeftPending ==
    [][ (ReportStep /\ last'.req_id \notin DOMAIN requests
                    /\ last'.req_id \in DOMAIN requests') =>
            /\ requests'[last'.req_id] \in {"completado", "fallido"}
            /\ Cardinality({i \in 1..Len(executions') :
                                executions'[i].requestId = last'.req_id}) = 1 ]_vars

(* C26: every report invocation whose stores answer creates a request that *)
(* was not there before and completes with a result, also when the same    *)
(* report already ran in the same interpreter process.                     *)
C26_EveryInvocationNewRequest ==
    [][ (ReportStep /\ last'.outcome = "ok") =>
            /\ last'.req_id \notin DOMAIN requests
            /\ last'.req_id \in DOMAIN requests'
            /\ ~last'.raised ]_vars

----------------------------------------------------------------------------
(* SpecStale: extremes reports of a month whose readings are re-inserted   *)
(* between two reports                                                     *)

StaleTemps == {None, Some(5), Some(46)}
StaleInstants == {Dt(2024, 2, 1, 0), Dt(2024, 2, 29, 12)}

StaleInsertMeasure ==
    DoInsertMeasure({"S1"}, {AR}, StaleTemps, {None}, StaleInstants, {"ok"})

StaleExtremes == DoExtremes(RepUsers, {AR}, TrackMonths, HashSeeds, {"ok"}, {0})

NextStale == StaleInsertMeasure \/ StaleExtremes

SpecStale == Init /\ [][NextStale]_vars

(* the days of the month of report l whose readings now hold a temperature *)
(* or a humidity: the days whose roll-up finds data                        *)
DaysWithData(l) ==
    {r.yyyymmdd : r \in {x \in byCity : /\ x.country = l.country /\ x.city = l.city
                                        /\ x.yyyymmdd \div 100 = l.year * 100 + l.month
                                        /\ (x.temperature # None \/ x.humidity # None)}}

(* C27: an extremes report that returns counts exactly the days whose      *)
(* roll-up, made by the report itself, found data: it fails with no such   *)
(* day, and a stats row left by an earlier roll-up of a day whose readings *)
(* now hold no value is not counted.                                       *)
C27_OnlyFreshRowsCounted ==
    Returned(last, "extremes") =>
        LET out == Val(last.result)
        IN  /\ out.ok = (DaysWithData(last) # {})
            /\ out.ok => out.days = Cardinality(DaysWithData(last))

----------------------------------------------------------------------------
(* Alert checks (alerts_part.py) *)

TEMP_MAX == 45
TEMP_MIN == -10
HUM_MAX == 85 * One
HUM_MIN == 10 * One
INACTIVITY_LIMIT_HOURS == 6

MaxAlerts == 2

(* leap years before year y *)
LeapsBefore(y) == (y - 1) \div 4 - (y - 1) \div 100 + (y - 1) \div 400

RECURSIVE DaysBeforeMonth(_, _)
DaysBeforeMonth(y, m) ==
    IF m = 1 THEN 0 ELSE DaysBeforeMonth(y, m - 1) + monthrange(y, m - 1)

(* the hours from 2000-01-01T00 to dt: datetime differences are taken on it *)
TotalHours(dt) ==
    (365 * (Year(dt) - 2000) + LeapsBefore(Year(dt)) - LeapsBefore(2000)
        + DaysBeforeMonth(Year(dt), Month(dt)) + Day(dt) - 1) * 24 + (dt % 100)

(* a row of table sensor; every column is nullable *)
SensorMeta(sensor_id, name, city, country) ==
    [sensor_id |-> Some(sensor_id), name |-> Some(name),
     city |-> Some(city), country |-> Some(country)]

(* upsert_sensor: INSERT INTO sensor, primary key sensor_id *)
upsert_sensor(tbl, row) == {r \in tbl : r.sensor_id # row.sensor_id} \cup {row}

RECURSIVE SeqBySensorId(_)
SeqBySensorId(S) ==
    IF S = {} THEN <<>>
    ELSE LET m == CHOOSE r \in S :
                      \A q \in S : Rank(Val(r.sensor_id)) <= Rank(Val(q.sensor_id))
         IN  <<m>> \o SeqBySensorId(S \ {m})

(* a sensor as the caller receives it: the key under the attribute id_attr *)
SensorObject(row, id_attr) ==
    (id_attr :> row.sensor_id)
        @@ [name |-> row.name, city |-> row.city, country |-> row.country]

(* cas.get_all_sensors: every row of table sensor; id_attr is the attribute *)
(* that carries the key, "sensor_id" as in the table or "id"                *)
get_all_sensors(tbl, id_attr) ==
    LET rows == SeqBySensorId(tbl)
    IN  [i \in 1..Len(rows) |-> SensorObject(rows[i], id_attr)]

(* cas.get_last_measurement: the most recent reading of the sensor, its    *)
(* timestamp under when_utc, or None                                       *)
get_last_measurement(tbl, sid) ==
    LET S == {r \in tbl : r.sensor_id = sid}
    IN  IF S = {} THEN None
        ELSE LET m == CHOOSE r \in S : \A q \in S : q.ts <= r.ts
             IN  Some([when_utc |-> Some(m.ts), temperature |-> m.temperature,
                       humidity |-> m.humidity])

(* the rows of a set of readings, newest first *)
RECURSIVE SeqNewestFirst(_)
SeqNewestFirst(S) ==
    IF S = {} THEN <<>>
    ELSE LET m == CHOOSE r \in S : \A q \in S :
                      q.ts < r.ts \/ (q.ts = r.ts /\ Rank(r.sensor_id) <= Rank(q.sensor_id))
         IN  <<m>> \o SeqNewestFirst(S \ {m})

(* cas.get_recent_measurements(session, hours=h): the readings of every    *)
(* sensor timestamped in the h hours up to now                             *)
get_recent_measurements(tbl, now, hours) ==
    SeqNewestFirst({r \in tbl : /\ TotalHours(r.ts) >= TotalHours(now) - hours
                                /\ TotalHours(r.ts) <= TotalHours(now)})

(* cas.get_recent_measurements(session, sensor_id, limit=n): the n most    *)
(* recent readings of the sensor                                           *)
get_recent_measurements_of(tbl, sensor_id, limit) ==
    LET rs == SeqNewestFirst({r \in tbl : r.sensor_id = sensor_id})
    IN  SubSeq(rs, 1, IF Len(rs) < limit THEN Len(rs) ELSE limit)

(* safe_get / getattr with a default of None *)
safe_get(obj, key) == IF key \in DOMAIN obj THEN obj[key] ELSE None

(* a or b: b when a is None or equals zero, the falsy value of its type *)
PyOr(a, b, zero) == IF a # None /\ Val(a) # zero THEN a ELSE b

(* an aware datetime: wall-clock fields and the offset of its zone in hours *)
Aware(wall, utcoffset) == [wall |-> wall, utcoffset |-> utcoffset]

(* last_dt.replace(tzinfo=timezone.utc): the fields stay, the zone is UTC *)
replace_tzinfo_utc(wall) == Aware(wall, 0)

(* datetime.now(timezone.utc) *)
now_utc(now) == Aware(now, 0)

(* the instant of an aware datetime, in hours since 2000-01-01T00Z *)
Instant(a) == TotalHours(a.wall) - a.utcoffset

(* a bug: the boundary counts as inactive *)
Inactive_AtLimit(last_dt, now) ==
    last_dt = None
        \/ Instant(now) - Instant(Val(last_dt)) >= INACTIVITY_LIMIT_HOURS

(* (last_dt is None) or ((now - last_dt).total_seconds() > 6 * 3600) *)
Inactive(last_dt, now) ==
    last_dt = None
        \/ Instant(now) - Instant(Val(last_dt)) > INACTIVITY_LIMIT_HOURS

RECURSIVE ActivityAlerts(_, _, _)
(* check_sensor_activity: the loop over the sensors *)
ActivityAlerts(ss, tbl, now) ==
    IF ss = <<>> THEN <<>>
    ELSE LET s       == Head(ss)
             sid     == IF "sensor_id" \in DOMAIN s THEN s.sensor_id
                        ELSE safe_get(s, "id")
             lastm   == get_last_measurement(tbl, Val(sid))
             last_dt == IF lastm # None /\ safe_get(Val(lastm), "when_utc") # None
                        THEN Some(replace_tzinfo_utc(Val(Val(lastm).when_utc)))
                        ELSE None
         IN  (IF sid = None \/ Val(sid) = "" THEN <<>>
              ELSE IF Inactive(last_dt, now_utc(now))
                   THEN <<[type |-> "sensor", sensor_id |-> Val(sid), timestamp |-> now,
                           description |-> [name |-> IF "name" \in DOMAIN s THEN s.name
                                                     ELSE sid,
                                            since |-> last_dt],
                           status |-> "activa"]>>
                   ELSE <<>>)
             \o ActivityAlerts(Tail(ss), tbl, now)

(* a bug: every alert check starts from an empty collection *)
insert_alerts_Replace(coll, batch) == batch

(* a bug: the alerts already stored are resolved when new ones arrive *)
insert_alerts_Resolve(coll, batch) ==
    [i \in 1..Len(coll) |-> [coll[i] EXCEPT !.status = "resuelta"]] \o batch

(* insert_alerts: insert_many appends the batch *)
insert_alerts(coll, batch) == coll \o batch

(* check_sensor_activity: the alerts it emits and the collection afterwards *)
check_sensor_activity(sens, tbl, coll, now, id_attr) ==
    LET batch == ActivityAlerts(get_all_sensors(sens, id_attr), tbl, now)
    IN  [n |-> Len(batch), batch |-> batch,
         alerts |-> IF batch # <<>> THEN insert_alerts(coll, batch) ELSE coll]

(* t > TEMP_MAX or t < TEMP_MIN *)
OutOfBand(t) == t > TEMP_MAX \/ t < TEMP_MIN

(* getattr(r, "sensor_id", r.get("sensor_id")): the default is evaluated    *)
(* before getattr is called, and a driver Row has no method get             *)
SensorIdOf(r, shape) ==
    IF shape = "Row" THEN [raised |-> TRUE] ELSE [raised |-> FALSE, value |-> r.sensor_id]

RECURSIVE TemperatureAlerts(_, _, _, _)
(* check_temperature_limits: the loop over the readings, which are driver   *)
(* Rows or dicts (shape); acc is [batch, raised]                            *)
TemperatureAlerts(readings, now, shape, acc) ==
    IF acc.raised \/ readings = <<>> THEN acc
    ELSE LET r == Head(readings)
             t == safe_get(r, "temperature")
         IN  IF t = None \/ ~OutOfBand(Val(t))
             THEN TemperatureAlerts(Tail(readings), now, shape, acc)
             ELSE LET sid == SensorIdOf(r, shape)
                  IN  IF sid.raised THEN [batch |-> <<>>, raised |-> TRUE]
                      ELSE TemperatureAlerts(Tail(readings), now, shape,
                               [batch |-> Append(acc.batch,
                                    [type |-> "climatica", sensor_id |-> sid.value,
                                     timestamp |-> now,
                                     description |->
                                         [bound |-> IF Val(t) > TEMP_MAX THEN "alta"
                                                    ELSE "baja",
                                          t |-> Val(t)],
                                     status |-> "activa"]),
                                raised |-> FALSE])

(* check_temperature_limits: raised when the AttributeError leaves it *)
check_temperature_limits(tbl, coll, now, shape) ==
    LET acc == TemperatureAlerts(get_recent_measurements(tbl, now, 1), now, shape,
                                 [batch |-> <<>>, raised |-> FALSE])
    IN  [raised |-> acc.raised, n |-> Len(acc.batch), batch |-> acc.batch,
         alerts |-> IF acc.batch # <<>> THEN insert_alerts(coll, acc.batch) ELSE coll]

RECURSIVE HumidityAlerts(_, _, _, _, _)
(* check_humidity_limits: the loop over the sensors *)
HumidityAlerts(ss, tbl, now, hum_min, hum_max) ==
    IF ss = <<>> THEN <<>>
    ELSE LET s         == Head(ss)
             sensor_id == PyOr(safe_get(s, "sensorId"), safe_get(s, "id"), "")
             recents   == get_recent_measurements_of(tbl, Val(sensor_id), 1)
             hum       == PyOr(safe_get(recents[1], "humidity"),
                               safe_get(recents[1], "hum"), 0)
         IN  (IF sensor_id = None \/ Val(sensor_id) = "" THEN <<>>
              ELSE IF recents = <<>> THEN <<>>
              ELSE IF hum = None THEN <<>>
              ELSE IF Val(hum) < hum_min \/ Val(hum) > hum_max
                   THEN <<[type |-> "climate", subtype |-> "humidity_out_of_range",
                           sensorId |-> Val(sensor_id),
                           country |-> safe_get(s, "country"),
                           city |-> safe_get(s, "city"),
                           value |-> Val(hum), thresholdMin |-> hum_min,
                           thresholdMax |-> hum_max, at |-> now, status |-> "new"]>>
                   ELSE <<>>)
             \o HumidityAlerts(Tail(ss), tbl, now, hum_min, hum_max)

(* check_humidity_limits *)
check_humidity_limits(sens, tbl, coll, now, id_attr, hum_min, hum_max) ==
    LET batch == HumidityAlerts(get_all_sensors(sens, id_attr), tbl, now, hum_min, hum_max)
    IN  [n |-> Len(batch), batch |-> batch,
         alerts |-> IF batch # <<>> THEN insert_alerts(coll, batch) ELSE coll]

(* datetime.now(): the clock does not run backwards *)
Tick(now) == now >= clock /\ clock' = now

UpsertSensor(sensor_id, name, city, country) ==
    /\ sensor' = upsert_sensor(sensor, SensorMeta(sensor_id, name, city, country))
    /\ last' = [op |-> "upsert-sensor", sensor_id |-> sensor_id]
    /\ UNCHANGED <<bySensor, byCity, stats, failed, nIns, requests, executions,
                   usage, alerts, clock, beyond>>

(* what an alert check leaves in last: the instant it read and what it emitted *)
Checked(op, now, r, raised) ==
    [op |-> op, now |-> now, n |-> r.n, batch |-> r.batch, raised |-> raised]

CheckActivity(now, id_attr) ==
    LET r == check_sensor_activity(sensor, bySensor, alerts, now, id_attr)
    IN  /\ Len(alerts) < MaxAlerts
        /\ Tick(now)
        /\ alerts' = r.alerts
        /\ last' = Checked("check_sensor_activity", now, r, FALSE)
        /\ UNCHANGED <<bySensor, byCity, stats, failed, nIns, sensor, requests,
                       executions, usage, beyond>>

CheckTemperature(now, shape) ==
    LET r == check_temperature_limits(bySensor, alerts, now, shape)
    IN  /\ Len(alerts) < MaxAlerts
        /\ Tick(now)
        /\ alerts' = r.alerts
        /\ last' = Checked("check_temperature_limits", now, r, r.raised) @@ [shape |-> shape]
        /\ UNCHANGED <<bySensor, byCity, stats, failed, nIns, sensor, requests,
                       executions, usage, beyond>>

CheckHumidity(now, id_attr) ==
    LET r == check_humidity_limits(sensor, bySensor, alerts, now, id_attr, HUM_MIN, HUM_MAX)
    IN  /\ Len(alerts) < MaxAlerts
        /\ Tick(now)
        /\ alerts' = r.alerts
        /\ last' = Checked("check_humidity_limits", now, r, FALSE) @@ [id_attr |-> id_attr]
        /\ UNCHANGED <<bySensor, byCity, stats, failed, nIns, sensor, requests,
                       executions, usage, beyond>>

DoUpsertSensor(SS, PP) ==
    \E sensor_id \in SS, p \in PP : UpsertSensor(sensor_id, sensor_id, p.city, p.country)

(* the attribute that carries the key of a sensor object *)
IdAttrs == {"sensor_id", "id"}

(* what a reading is: a driver Row, as the session of connect() yields, or  *)
(* a dict                                                                   *)
Shapes == {"Row", "dict"}

DoCheckActivity(NN) == \E now \in NN, id_attr \in IdAttrs : CheckActivity(now, id_attr)

DoCheckTemperature(NN) == \E now \in NN, shape \in Shapes : CheckTemperature(now, shape)

DoCheckHumidity(NN) == \E now \in NN, id_attr \in IdAttrs : CheckHumidity(now, id_attr)

----------------------------------------------------------------------------
(* The inactivity check: two sensors, readings around the end of a leap     *)
(* February, checks 5 to 8 hours later.                                     *)

ActSensors == {"S1", "S2"}
ActInstants == {Dt(2024, 2, 29, 22), Dt(2024, 2, 29, 23), Dt(2024, 3, 1, 0)}
ActNows == {Dt(2024, 3, 1, 5), Dt(2024, 3, 1, 6)}

ActUpsertSensor == DoUpsertSensor(ActSensors, {AR})

ActInsertMeasure ==
    DoInsertMeasure(ActSensors, {AR}, {Some(5)}, {None}, ActInstants, {"ok"})

ActCheck == DoCheckActivity(ActNows)

NextActivity == ActUpsertSensor \/ ActInsertMeasure \/ ActCheck

SpecActivity == Init /\ [][NextActivity]_vars

(* the sensors named by a batch of alerts *)
Alerted(batch) == {batch[i].sensor_id : i \in 1..Len(batch)}

(* the ids of the known sensors *)
Known == {Val(s.sensor_id) : s \in sensor}

(* the timestamps of the readings of a sensor *)
ReadingsAt(sid) == {r.ts : r \in {q \in bySensor : q.sensor_id = sid}}

(* the sensor never reported, or its newest reading, read as UTC, is more   *)
(* than 6 hours before now                                                  *)
Silent(sid, now) ==
    \A t \in ReadingsAt(sid) : TotalHours(now) - TotalHours(t) > 6

(* C17: checkInactivity emits an alert for a known sensor if and only if    *)
(* the sensor has no measurement at all or its most recent measurement,     *)
(* read as UTC, is more than 6 hours older than the current instant, and    *)
(* exactly one alert per inactive sensor.                                   *)
C17_InactivityAlerts ==
    last.op = "check_sensor_activity" =>
        /\ Alerted(last.batch) = {sid \in Known : Silent(sid, last.now)}
        /\ last.n = Cardinality(Alerted(last.batch))
        /\ last.n = Len(last.batch)

(* a check that found one sensor 7 hours silent (alerted), over midnight of *)
(* a leap day, and another 5 hours silent (not alerted)                     *)
C17_Witness ==
    /\ last.op = "check_sensor_activity"
    /\ \E a, b \in Known :
          /\ ReadingsAt(a) # {} /\ ReadingsAt(b) # {}
          /\ \A t \in ReadingsAt(a) : TotalHours(last.now) - TotalHours(t) = 7
          /\ \A t \in ReadingsAt(b) : TotalHours(last.now) - TotalHours(t) = 5
          /\ Alerted(last.batch) = {a}

(* a check that alerted a sensor that never reported and left alone one     *)
(* whose newest reading is exactly 6 hours old                              *)
C17_WitnessNeverReported ==
    /\ last.op = "check_sensor_activity"
    /\ \E a, b \in Known :
          /\ ReadingsAt(a) = {} /\ ReadingsAt(b) # {}
          /\ \E t \in ReadingsAt(b) : TotalHours(last.now) - TotalHours(t) = 6
          /\ Alerted(last.batch) = {a}

(* C20: invoking the inactivity check again, with no change to measurements *)
(* or sensors in between, appends its alerts after the stored ones: every   *)
(* sensor alerted the first time is alerted again, and at the same instant  *)
(* the second invocation emits and stores as many alerts as the first.      *)
C20_RepeatedCheckAppends ==
    [][(last.op = "check_sensor_activity" /\ last'.op = "check_sensor_activity") =>
          /\ Alerted(last.batch) \subseteq Alerted(last'.batch)
          /\ last'.n >= last.n
          /\ last'.now = last.now => last'.n = last.n
          /\ alerts' = alerts \o last'.batch
          /\ Len(alerts') = Len(alerts) + last'.n]_vars

(* two checks in a row, each of which alerted the same silent sensor: the   *)
(* collection holds both alerts                                             *)
C20_Witness ==
    /\ last.op = "check_sensor_activity"
    /\ last.n = 1
    /\ Len(alerts) = 2
    /\ alerts[1].sensor_id = alerts[2].sensor_id
    /\ alerts[1].timestamp = alerts[2].timestamp
    /\ alerts[2] = last.batch[1]

----------------------------------------------------------------------------
(* The temperature check: readings of the instant of the check and of two   *)
(* hours before it, on the band limits and one degree outside them.         *)

TempNow == Dt(2024, 3, 1, 0)
TempInstants == {Dt(2024, 2, 29, 22), TempNow}
BandTemps == {None, Some(45), Some(46), Some(-10), Some(-11)}

TempInsertMeasure ==
    DoInsertMeasure({"S1", "S2"}, {AR}, BandTemps, {None}, TempInstants, {"ok"})

TempCheck == DoCheckTemperature({TempNow})

NextTempBounds == TempInsertMeasure \/ TempCheck

SpecTempBounds == Init /\ [][NextTempBounds]_vars

(* the readings of the last hour with a temperature above 45 or below -10 *)
Extreme(now) ==
    {r \in bySensor : /\ TotalHours(now) - TotalHours(r.ts) \in 0..1
                      /\ r.temperature # None
                      /\ (Val(r.temperature) > 45 \/ Val(r.temperature) < -10)}

(* the readings a batch of temperature alerts speaks of *)
Reported(batch) ==
    {<<batch[i].sensor_id, batch[i].description.t>> : i \in 1..Len(batch)}

(* the batch holds one alert for each reading of rs and nothing else *)
OnePerReading(batch, rs) ==
    /\ Len(batch) = Cardinality(rs)
    /\ Reported(batch) = {<<r.sensor_id, Val(r.temperature)>> : r \in rs}

(* C18: checkTemperatureBounds emits exactly one alert for each reading of  *)
(* the last hour whose temperature is above 45 or below -10, and none for a *)
(* reading inside the band, without temperature or older than the window.   *)
C18_TemperatureAlerts ==
    last.op = "check_temperature_limits" =>
        /\ ~last.raised
        /\ OnePerReading(last.batch, Extreme(last.now))

(* the same statement for readings that are dicts, the one shape line 75    *)
(* accepts                                                                  *)
TemperatureAlertsOnDicts ==
    (last.op = "check_temperature_limits" /\ last.shape = "dict") =>
        /\ ~last.raised
        /\ OnePerReading(last.batch, Extreme(last.now))

(* a check over dicts that alerted one reading of 46 and passed over one of *)
(* 45 in the same hour                                                      *)
TemperatureAlertsOnDicts_Witness ==
    /\ last.op = "check_temperature_limits" /\ last.shape = "dict"
    /\ last.n = 1 /\ last.batch[1].description.t = 46
    /\ \E r \in bySensor : r.ts = last.now /\ r.temperature = Some(45)

----------------------------------------------------------------------------
(* The humidity check: two sensors, readings of 5 %, 55 % and 90 % (the     *)
(* last given as a percentage), an older and a newer instant.               *)

BandHumNow == Dt(2024, 3, 1, 0)
BandHumInstants == {Dt(2024, 2, 29, 23), BandHumNow}
BandHums == {Some(500), Some(5500), Some(90 * One)}

BandHumUpsertSensor == DoUpsertSensor({"S1", "S2"}, {AR})

BandHumInsertMeasure ==
    DoInsertMeasure({"S1", "S2"}, {AR}, {None}, BandHums, BandHumInstants, {"ok"})

BandHumCheck == DoCheckHumidity({BandHumNow})

NextHumBounds == BandHumUpsertSensor \/ BandHumInsertMeasure \/ BandHumCheck

SpecHumBounds == Init /\ [][NextHumBounds]_vars

(* the newest reading of a sensor that has one *)
Newest(sid) ==
    CHOOSE r \in bySensor :
        r.sensor_id = sid /\ \A t \in ReadingsAt(sid) : t <= r.ts

(* the stored humidity, a fraction of One, as a percentage of One *)
Percent(h) == 100 * h

(* the known sensors whose newest reading has a humidity outside 10 % - 85 % *)
OutOfHumBand ==
    {sid \in Known :
        /\ ReadingsAt(sid) # {}
        /\ Newest(sid).humidity # None
        /\ (Percent(Val(Newest(sid).humidity)) < 10 * One
               \/ Percent(Val(Newest(sid).humidity)) > 85 * One)}

(* C19: checkHumidityBounds looks, for every known sensor, at its newest    *)
(* reading only and emits one alert for the sensor if and only if the       *)
(* humidity of that reading, as a percentage, lies outside 10 % to 85 %.    *)
C19_HumidityAlerts ==
    last.op = "check_humidity_limits" =>
        /\ {last.batch[i].sensorId : i \in 1..Len(last.batch)} = OutOfHumBand
        /\ last.n = Cardinality(OutOfHumBand)

----------------------------------------------------------------------------
(* The three checks side by side: one sensor, a hot and humid reading now   *)
(* or eight hours ago, the day rolled up.                                   *)

FrameNow == Dt(2024, 3, 1, 0)
FrameInstants == {Dt(2024, 2, 29, 16), FrameNow}

FrameUpsertSensor == DoUpsertSensor({"S1"}, {AR})

FrameInsertMeasure ==
    DoInsertMeasure({"S1"}, {AR}, {Some(46)}, {Some(5500)}, FrameInstants, {"ok"})

FrameRollup == DoRollup({AR}, FrameInstants, {"ok"})

FrameCheckActivity == DoCheckActivity({FrameNow})

FrameCheckTemperature == DoCheckTemperature({FrameNow})

FrameCheckHumidity == DoCheckHumidity({FrameNow})

NextChecks ==
    \/ FrameUpsertSensor \/ FrameInsertMeasure \/ FrameRollup
    \/ FrameCheckActivity \/ FrameCheckTemperature \/ FrameCheckHumidity

SpecChecks == Init /\ [][NextChecks]_vars

AlertChecks ==
    {"check_sensor_activity", "check_temperature_limits", "check_humidity_limits"}

(* C21: every alert check leaves sensor metadata, both measurement views    *)
(* and the daily statistics unchanged, and changes the alert store only by  *)
(* appending: the records stored before are still there, in place and as    *)
(* they were.                                                               *)
C21_ChecksOnlyAppendAlerts ==
    [][last'.op \in AlertChecks =>
          /\ sensor' = sensor /\ bySensor' = bySensor /\ byCity' = byCity
          /\ stats' = stats
          /\ Len(alerts') = Len(alerts) + last'.n
          /\ SubSeq(alerts', 1, Len(alerts)) = alerts
          /\ SubSeq(alerts', Len(alerts) + 1, Len(alerts')) = last'.batch]_vars

(* a check that alerted while an alert of an earlier check was stored, with *)
(* a sensor, a reading and a statistics row in place                        *)
C21_Witness ==
    /\ last.op \in AlertChecks /\ last.n = 1
    /\ Len(alerts) = 2 /\ alerts[1].type # alerts[2].type
    /\ sensor # {} /\ bySensor # {} /\ byCity # {} /\ stats # {}

----------------------------------------------------------------------------
(* Concurrent roll-ups: rollup_daily_for_city is a SELECT followed by an    *)
(* INSERT, two statements between which other clients run. The INSERT that  *)
(* reaches the table last is the one that stays (last write wins).          *)

MaxRollups == 2

(* the SELECT and the reduction of one roll-up. A day without values        *)
(* returns None at once; otherwise the row waits to be written.             *)
RollupRead(country, city, day_yyyymmdd) ==
    LET r   == rollup_daily_for_city(byCity, {}, country, city, day_yyyymmdd)
        id  == inflight.started + 1
        key == [country |-> country, city |-> city, yyyymmdd |-> day_yyyymmdd]
    IN  /\ inflight.started < MaxRollups
        /\ inflight' =
              [tasks   |-> IF r.result = None THEN inflight.tasks
                           ELSE inflight.tasks
                                  \cup {[id |-> id, row |-> CHOOSE x \in r.stats : TRUE]},
               started |-> id,
               newest  |-> IF r.result = None THEN None
                           ELSE Some(CHOOSE x \in r.stats : TRUE)]
        /\ last' = key @@ [op |-> "rollup-read", id |-> id, result |-> r.result]
        /\ UNCHANGED <<bySensor, byCity, stats, failed, nIns, sensor, requests,
                       executions, usage, alerts, clock, sessions, cache,
                       alertState, activeIdx, calls, queue>>

(* the INSERT of a roll-up that has read *)
RollupWrite(t) ==
    /\ t \in inflight.tasks
    /\ stats' = InsertStats(stats, t.row)
    /\ inflight' = [inflight EXCEPT !.tasks = @ \ {t}]
    /\ last' = [op |-> "rollup-write", id |-> t.id, row |-> t.row,
                country |-> t.row.country, city |-> t.row.city,
                yyyymmdd |-> t.row.yyyymmdd]
    /\ UNCHANGED <<bySensor, byCity, failed, nIns, sensor, requests,
                   executions, usage, alerts, clock, sessions, cache,
                   alertState, activeIdx, calls, queue>>

DoRollupRead(PP, II) ==
    \E p \in PP, when \in II : RollupRead(p.country, p.city, yyyymmdd(when))

DoRollupWrite == \E t \in inflight.tasks : RollupWrite(t)

(* one city-day, readings of 5 and 46 degrees at two hours of it *)
RaceInstants == {Dt(2024, 1, 1, 0), Dt(2024, 1, 1, 12)}

RaceInsertMeasure ==
    DoInsertMeasure({"S1"}, {AR}, {Some(5), Some(46)}, {None}, RaceInstants, {"ok"})

RaceRollupRead == DoRollupRead({AR}, {Dt(2024, 1, 1, 0)})

NextRace == RaceInsertMeasure \/ RaceRollupRead \/ DoRollupWrite

SpecRace == Init /\ [][NextRace]_vars

(* C24 as stated: once every roll-up has completed, the stored row is the   *)
(* reduction over the readings the last-started roll-up read.               *)
C24_LastStartedWins ==
    (inflight.tasks = {} /\ inflight.newest # None) =>
        StatsOf(stats, Val(inflight.newest)) = {Val(inflight.newest)}

(* C24, amended: the stored row is the reduction over the readings read by  *)
(* the roll-up that wrote last, whichever started first; nothing but the    *)
(* INSERT of a roll-up changes the table.                                   *)
C24_LastWriterWins ==
    [][IF last'.op = "rollup-write"
       THEN /\ StatsOf(stats', last') = {last'.row}
            /\ {r \in stats' : ~SameStatsKey(r, last'.row)}
                   = {r \in stats : ~SameStatsKey(r, last'.row)}
       ELSE stats' = stats]_vars

(* both roll-ups have completed and the first to read wrote last: the       *)
(* stored row is older than what the second read                            *)
C24_Witness ==
    /\ last.op = "rollup-write" /\ last.id = 1
    /\ inflight.started = 2 /\ inflight.tasks = {}
    /\ inflight.newest # None /\ Val(inflight.newest) # last.row
    /\ StatsOf(stats, last) = {last.row}

----------------------------------------------------------------------------
(* The roll-up's reduction in floats (cassandra_part.py)                    *)
(*                                                                         *)
(* rollup_daily_for_city reduces Python floats: float(r.temperature),      *)
(* min, max, sum(temps)/len(temps). A positive float is [e, m]: m the 53   *)
(* bits of its significand, highest first and m[1] = 1, e the power of two *)
(* of m[1]; every operation rounds to nearest, ties to even.               *)

MantBits == 53

Zeros(n) == [i \in 1..n |-> 0]

(* bits + 1; one bit longer when every bit is 1 *)
IncBits(bits) ==
    IF \A i \in 1..Len(bits) : bits[i] = 1
    THEN <<1>> \o Zeros(Len(bits))
    ELSE LET k == CHOOSE i \in 1..Len(bits) :
                      bits[i] = 0 /\ \A j \in (i + 1)..Len(bits) : bits[j] = 1
         IN  [i \in 1..Len(bits) |-> IF i < k THEN bits[i] ELSE IF i = k THEN 1 ELSE 0]

(* the float nearest to the number whose binary digits are bits (bits[1] = *)
(* 1, worth 2^e) followed, when sticky, by more non-zero digits            *)
RoundNearestEven(bits, e, sticky) ==
    LET all   == bits \o Zeros(MantBits + 1)
        keep  == SubSeq(all, 1, MantBits)
        half  == all[MantBits + 1] = 1
        more  == sticky \/ \E i \in (MantBits + 2)..Len(bits) : bits[i] = 1
        up    == half /\ (more \/ keep[MantBits] = 1)
        inc   == IncBits(keep)
    IN  IF ~up THEN [e |-> e, m |-> keep]
        ELSE IF Len(inc) > MantBits THEN [e |-> e + 1, m |-> SubSeq(inc, 1, MantBits)]
        ELSE [e |-> e, m |-> inc]

RECURSIVE Normalised(_, _, _)
(* n/d = (n'/d') * 2^e with 1 <= n'/d' < 2 *)
Normalised(n, d, e) ==
    IF n < d THEN Normalised(2 * n, d, e - 1)
    ELSE IF n >= 2 * d THEN Normalised(n, 2 * d, e + 1)
    ELSE [n |-> n, d |-> d, e |-> e]

RECURSIVE Digits(_, _, _, _)
(* the next count binary digits of r/d, r < d, and the remainder left *)
Digits(r, d, count, acc) ==
    IF count = 0 THEN [bits |-> acc, r |-> r]
    ELSE IF 2 * r >= d THEN Digits(2 * r - d, d, count - 1, Append(acc, 1))
    ELSE Digits(2 * r, d, count - 1, Append(acc, 0))

(* float(x) of the decimal x = num/den > 0, as float(r.temperature) and    *)
(* the command line's type=float give it                                   *)
float(x) ==
    LET nz == Normalised(x.num, x.den, 0)
        ds == Digits(nz.n - nz.d, nz.d, MantBits, <<1>>)
    IN  RoundNearestEven(ds.bits, nz.e, ds.r # 0)

(* the carry into bit i of a + b, two bit strings of one length: some     *)
(* lower bit generates a carry and every bit between passes it on         *)
CarryInto(a, b, i) ==
    \E j \in (i + 1)..Len(a) : /\ a[j] + b[j] = 2
                               /\ \A k \in (i + 1)..(j - 1) : a[k] + b[k] = 1

(* a + b for two bit strings of one length; one bit longer on overflow *)
AddBits(a, b) ==
    LET low == [i \in 1..Len(a) |->
                   (a[i] + b[i] + (IF CarryInto(a, b, i) THEN 1 ELSE 0)) % 2]
    IN  IF CarryInto(a, b, 0) THEN <<1>> \o low ELSE low

(* x + y in floats, both positive *)
FloatAdd(x, y) ==
    LET hi    == IF x.e >= y.e THEN x ELSE y
        lo    == IF x.e >= y.e THEN y ELSE x
        shift == hi.e - lo.e
        total == AddBits(hi.m \o Zeros(shift), Zeros(shift) \o lo.m)
    IN  RoundNearestEven(total,
                         IF Len(total) > MantBits + shift THEN hi.e + 1 ELSE hi.e,
                         FALSE)

RECURSIVE FloatSum(_, _)
(* sum(temps): the floats added from the left; the start value 0 adds      *)
(* nothing. The compensated summation of newer interpreters gives the same *)
(* float for up to two values and for three equal ones.                    *)
FloatSum(xs, acc) ==
    IF xs = <<>> THEN acc ELSE FloatSum(Tail(xs), FloatAdd(acc, Head(xs)))

RECURSIVE DivBits(_, _, _, _)
(* the quotient digits and the remainder of bits / k, highest bit first *)
DivBits(bits, k, r, acc) ==
    IF bits = <<>> THEN [q |-> acc, r |-> r]
    ELSE IF 2 * r + Head(bits) >= k
    THEN DivBits(Tail(bits), k, 2 * r + Head(bits) - k, Append(acc, 1))
    ELSE DivBits(Tail(bits), k, 2 * r + Head(bits), Append(acc, 0))

(* x / k in floats, k = len(temps) in 1..7 *)
FloatDiv(x, k) ==
    LET quot == DivBits(x.m \o Zeros(4), k, 0, <<>>)
        lead == CHOOSE i \in 1..Len(quot.q) :
                    quot.q[i] = 1 /\ \A j \in 1..(i - 1) : quot.q[j] = 0
    IN  RoundNearestEven(SubSeq(quot.q, lead, Len(quot.q)), x.e - (lead - 1),
                         quot.r # 0)

(* x <= y for two positive floats *)
FloatLe(x, y) ==
    \/ x.e < y.e
    \/ /\ x.e = y.e
       /\ \/ x.m = y.m
          \/ \E i \in 1..MantBits : /\ x.m[i] < y.m[i]
                                    /\ \A j \in 1..(i - 1) : x.m[j] = y.m[j]

FloatMin(xs) ==
    CHOOSE x \in {xs[i] : i \in 1..Len(xs)} : \A j \in 1..Len(xs) : FloatLe(x, xs[j])

FloatMax(xs) ==
    CHOOSE x \in {xs[i] : i \in 1..Len(xs)} : \A j \in 1..Len(xs) : FloatLe(xs[j], x)

(* [float(r.temperature) for r in rs]: the floats of a list of decimals *)
Floats(temps) == [i \in 1..Len(temps) |-> float(temps[i])]

(* temp_min, temp_max, temp_avg of a day whose temperatures are the floats *)
(* fs, a non-empty list, total being sum(fs)                               *)
FloatChannel(fs, total) ==
    [temp_min |-> FloatMin(fs),
     temp_max |-> FloatMax(fs),
     temp_avg |-> FloatDiv(total, Len(fs))]

----------------------------------------------------------------------------
(* SpecFloat: the reduction of one day's temperatures, given in tenths of  *)
(* a degree                                                                *)

MaxTenths == 12

Tenths == {[num |-> n, den |-> 10] : n \in 1..MaxTenths}

FloatDays ==
    {<<x>> : x \in Tenths} \cup {<<x, y>> : x \in Tenths, y \in Tenths}
                           \cup {<<x, x, x>> : x \in Tenths}

InitFloat ==
    /\ bySensor = {}
    /\ byCity = {}
    /\ stats = {}
    /\ last \in {[op |-> "readings", temps |-> xs] : xs \in FloatDays}
    /\ failed = FALSE
    /\ nIns = 0
    /\ sensor = {}
    /\ requests = <<>>
    /\ executions = <<>>
    /\ usage = <<>>
    /\ alerts = <<>>
    /\ clock = 0
    /\ InitBeyond

Reduce ==
    /\ last.op = "readings"
    /\ \E fs \in {Floats(last.temps)} :
       \E total \in {FloatSum(Tail(fs), Head(fs))} :
           last' = [op |-> "reduce", temps |-> last.temps,
                    row |-> FloatChannel(fs, total)]
    /\ UNCHANGED <<bySensor, byCity, stats, failed, nIns>>
    /\ UNCHANGED outside

NextFloat == Reduce

SpecFloat == InitFloat /\ [][NextFloat]_vars

(* C28, the order of the statistics: the average the roll-up stores is not *)
(* below the minimum and not above the maximum it stores with it.          *)
C28_StatsRowWellFormed ==
    last.op = "reduce" =>
        /\ FloatLe(last.row.temp_min, last.row.temp_avg)
        /\ FloatLe(last.row.temp_avg, last.row.temp_max)

(* the rest of C28, on the rows of the store: samples is at least 1, the   *)
(* three statistics of a channel are all present or all absent, and the    *)
(* minimum is not above the maximum                                        *)
StatsRowShape ==
    \A r \in stats :
        /\ r.samples >= 1
        /\ (r.temp_min = None) = (r.temp_max = None)
        /\ (r.temp_min = None) = (r.temp_avg = None)
        /\ (r.hum_min = None) = (r.hum_max = None)
        /\ (r.hum_min = None) = (r.hum_avg = None)
        /\ r.temp_min # None => Val(r.temp_min) <= Val(r.temp_max)
        /\ r.hum_min # None => Val(r.hum_min) <= Val(r.hum_max)

(* a humidity-only row next to a row with both channels *)
StatsRowShape_Witness ==
    /\ \E r \in stats : r.temp_min = None /\ r.hum_min # None
    /\ \E r \in stats : r.temp_min # None /\ r.hum_min # None

----------------------------------------------------------------------------
(* Sessions (auth_part.py): the sessions collection and the session cache  *)

MaxLogins == 2

(* the roles of the users that can log in (users collection) *)
UserRoles ==
    [e \in {"demo@uade.com", "tec@uade.com"} |->
        IF e = "demo@uade.com" THEN {"usuario"} ELSE {"tecnico"}]

(* the permissions of the seeded roles that the checks below ask for *)
RolePermissions ==
    [r \in {"usuario", "tecnico"} |->
        IF r = "usuario" THEN {"request:process", "message:send"}
        ELSE {"sensor:write", "message:send"}]

Permissions == {"request:process", "sensor:write", "message:send"}

(* the session document login inserts; sid is the counter's next value *)
SessionDoc(sid, email, roles) ==
    [session_id |-> sid, email |-> email, roles |-> roles, active |-> TRUE]

(* rcli.delete(key) for every key of sids *)
CacheDelete(cch, sids) == [k \in DOMAIN cch \ sids |-> cch[k]]

(* rcli.setex(key, ttl, roles): the entry is set or replaced *)
CacheSet(cch, sid, roles) == (sid :> roles) @@ cch

(* login of a user that exists with the right password. cache_outcome      *)
(* "fail": setex raises and the error is swallowed.                        *)
login(email, cache_outcome) ==
    LET sid   == Len(sessions) + 1
        roles == UserRoles[email]
    IN  /\ Len(sessions) < MaxLogins
        /\ sessions' = Append(sessions, SessionDoc(sid, email, roles))
        /\ cache' = IF cache_outcome = "ok" THEN CacheSet(cache, sid, roles) ELSE cache
        /\ last' = [op |-> "login", email |-> email, session_id |-> sid,
                    cache_outcome |-> cache_outcome]

(* the active sessions of email *)
ActiveSessions(sess, email) ==
    {i \in 1..Len(sess) : sess[i].email = email /\ sess[i].active}

(* logout: every active session of email is closed in Mongo, then its      *)
(* cache entry is deleted. cache_outcome "fail": delete raises (the cache  *)
(* is unreachable) and the error is swallowed.                             *)
logout(email, cache_outcome) ==
    LET active_sessions == ActiveSessions(sessions, email)
    IN  /\ sessions' = [i \in 1..Len(sessions) |->
                           IF i \in active_sessions
                           THEN [sessions[i] EXCEPT !.active = FALSE]
                           ELSE sessions[i]]
        /\ cache' = IF cache_outcome = "ok" /\ active_sessions # {}
                    THEN CacheDelete(cache, {sessions[i].session_id : i \in active_sessions})
                    ELSE cache
        /\ last' = [op |-> "logout", email |-> email,
                    cache_outcome |-> cache_outcome,
                    result |-> Cardinality(active_sessions)]

(* the roles session_has_permission works with: the cached ones when the   *)
(* cache answers with a non-empty list, else those of the active session   *)
(* document, else none                                                     *)
SessionRoles(sess, cch, session_id, cache_outcome) ==
    LET cached == IF cache_outcome = "ok" /\ session_id \in DOMAIN cch
                  THEN cch[session_id] ELSE {}
        found  == {i \in 1..Len(sess) : sess[i].session_id = session_id /\ sess[i].active}
    IN  IF cached # {} THEN cached
        ELSE IF found = {} THEN {}
        ELSE sess[CHOOSE i \in found : TRUE].roles

(* session_has_permission(session_id, permission) *)
session_has_permission(sess, cch, session_id, permission, cache_outcome) ==
    LET roles == SessionRoles(sess, cch, session_id, cache_outcome)
    IN  permission \in UNION {RolePermissions[r] : r \in roles \cap DOMAIN RolePermissions}

(* the TTL of a cache entry runs out (setex with SESSION_TTL_HOURS) *)
CacheExpire(sid) ==
    /\ sid \in DOMAIN cache
    /\ cache' = CacheDelete(cache, {sid})
    /\ last' = [op |-> "expire", session_id |-> sid]
    /\ UNCHANGED sessions

AuthFrame ==
    UNCHANGED <<bySensor, byCity, stats, failed, nIns, sensor, requests, executions,
                usage, alerts, clock, inflight, alertState, activeIdx, calls, queue>>

CacheOutcomes == {"ok", "fail"}

DoLogin ==
    \E email \in DOMAIN UserRoles, o \in CacheOutcomes : login(email, o) /\ AuthFrame

DoLogout ==
    \E email \in DOMAIN UserRoles, o \in CacheOutcomes : logout(email, o) /\ AuthFrame

DoHasPermission ==
    \E sid \in 1..(MaxLogins + 1), p \in Permissions, o \in CacheOutcomes :
        /\ last' = [op |-> "session_has_permission", session_id |-> sid,
                    permission |-> p, cache_outcome |-> o,
                    result |-> session_has_permission(sessions, cache, sid, p, o)]
        /\ UNCHANGED <<sessions, cache>>
        /\ AuthFrame

DoCacheExpire == \E sid \in 1..MaxLogins : CacheExpire(sid) /\ AuthFrame

NextAuth == DoLogin \/ DoLogout \/ DoHasPermission \/ DoCacheExpire

SpecAuth == Init /\ [][NextAuth]_vars

(* the sessions that a logout has closed *)
LoggedOut == {i \in 1..Len(sessions) : ~sessions[i].active}

(* C29: session_has_permission answers false, whatever the permission, for *)
(* a session that a logout has closed, also when the logout could not      *)
(* delete the cache entry.                                                 *)
C29_NoPermissionAfterLogout ==
    (last.op = "session_has_permission" /\ last.session_id \in LoggedOut)
        => ~last.result

(* what holds: a closed session has no permission once its cache entry is  *)
(* gone, by the delete of the logout or by the entry's expiry              *)
NoPermissionOnceUncached ==
    (/\ last.op = "session_has_permission"
     /\ last.session_id \in LoggedOut
     /\ last.session_id \notin DOMAIN cache)
        => ~last.result

NoPermissionOnceUncached_Witness ==
    /\ last.op = "session_has_permission"
    /\ last.session_id \in LoggedOut
    /\ last.session_id \notin DOMAIN cache
    /\ last.permission = "message:send"
    /\ \E i \in 1..Len(sessions) : sessions[i].active

----------------------------------------------------------------------------
(* The alert index (redis_module.py): push_alert and resolve_alert are      *)
(* sequences of single Redis commands; the commands of calls made from     *)
(* several processes interleave                                            *)

MaxCalls == 3

(* r.hset(f"alert:{alert_id}", mapping={..., "state": state}) *)
HSetState(tbl, alert_id, state) == (alert_id :> state) @@ tbl

(* the commands of push_alert after the first and of resolve_alert after   *)
(* the first, in order                                                     *)
CommandsLeft(op) == IF op = "push_alert" THEN <<"zadd", "xadd">> ELSE <<"zrem">>

(* a call that has just issued its first command, the hset *)
Call(op, alert_id) ==
    [n |-> Cardinality(calls) + 1, op |-> op, alert_id |-> alert_id,
     left |-> CommandsLeft(op)]

(* push_alert, first command: the hash gets state "activa" *)
push_alert(alert_id) ==
    /\ Cardinality(calls) < MaxCalls
    /\ alertState' = HSetState(alertState, alert_id, "activa")
    /\ calls' = calls \cup {Call("push_alert", alert_id)}
    /\ last' = [op |-> "push_alert", alert_id |-> alert_id, command |-> "hset"]
    /\ UNCHANGED <<activeIdx, queue>>

(* resolve_alert, first command: the hash gets state "resuelta" *)
resolve_alert(alert_id) ==
    /\ Cardinality(calls) < MaxCalls
    /\ alertState' = HSetState(alertState, alert_id, "resuelta")
    /\ calls' = calls \cup {Call("resolve_alert", alert_id)}
    /\ last' = [op |-> "resolve_alert", alert_id |-> alert_id, command |-> "hset"]
    /\ UNCHANGED <<activeIdx, queue>>

(* the next command of a call under way: zadd and xadd of push_alert, zrem *)
(* of resolve_alert                                                        *)
NextCommand(c) ==
    LET cmd == Head(c.left)
    IN  /\ c \in calls /\ c.left # <<>>
        /\ activeIdx' = IF cmd = "zadd" THEN activeIdx \cup {c.alert_id}
                        ELSE IF cmd = "zrem" THEN activeIdx \ {c.alert_id}
                        ELSE activeIdx
        /\ queue' = IF cmd = "xadd" THEN Append(queue, c.alert_id) ELSE queue
        /\ calls' = (calls \ {c}) \cup {[c EXCEPT !.left = Tail(@)]}
        /\ last' = [op |-> c.op, alert_id |-> c.alert_id, command |-> cmd]
        /\ UNCHANGED alertState

IndexFrame ==
    UNCHANGED <<bySensor, byCity, stats, failed, nIns, sensor, requests, executions,
                usage, alerts, clock, inflight, sessions, cache>>

AlertIds == {"A1", "A2"}

(* the calls that have not issued all their commands *)
UnderWay == {c \in calls : c.left # <<>>}

DoPushAlert == \E alert_id \in AlertIds : push_alert(alert_id) /\ IndexFrame

DoResolveAlert == \E alert_id \in AlertIds : resolve_alert(alert_id) /\ IndexFrame

DoNextCommand == \E c \in calls : NextCommand(c) /\ IndexFrame

NextIndex == DoPushAlert \/ DoResolveAlert \/ DoNextCommand

(* calls from several processes *)
SpecIndex == Init /\ [][NextIndex]_vars

(* calls from one process: a call starts when no other is under way *)
NextIndexSeq ==
    \/ UnderWay = {} /\ DoPushAlert
    \/ UnderWay = {} /\ DoResolveAlert
    \/ DoNextCommand

SpecIndexSeq == Init /\ [][NextIndexSeq]_vars

(* the alerts whose hash says "activa" *)
StoredActive == {a \in DOMAIN alertState : alertState[a] = "activa"}

(* C30: once every call has completed, an alert is a member of             *)
(* alerts:active exactly when its stored state is "activa", also when the  *)
(* commands of a push_alert and a resolve_alert of one alert interleaved.  *)
C30_IndexMatchesState ==
    UnderWay = {} => activeIdx = StoredActive

====
